---- MODULE Spec2Model ----
(***************************************************************************)
(* Model of drone_show.py: the trajectory execution loop                   *)
(* (perform_trajectory), the controlled landing (controlled_landing) and   *)
(* the native landing helpers (perform_landing, wait_for_landing,          *)
(* stop_offboard_mode, disarm_drone).                                      *)
(*                                                                         *)
(* Time is counted in ticks of 0.1 s, altitudes in whole metres, mission   *)
(* progress in percent.  The awaited calls of a pass of the main loop and  *)
(* of the descent loop take a time drawn from Jitters; the calls of the    *)
(* native landing helpers are instantaneous and only their sleeps advance  *)
(* the clock.  An awaited command ends in success, in OffboardError or in  *)
(* another exception (the code has handlers for both kinds).               *)
(*                                                                         *)
(* SpecBoot follows run_drone from the start of the process to the call    *)
(* of perform_trajectory: server start, connection and arm sequence under  *)
(* their tenacity retries, pre-flight checks, launch capture, start time.  *)
(* Its awaited calls are instantaneous; only sleeps and retry waits        *)
(* advance the clock.                                                      *)
(***************************************************************************)
EXTENDS Integers, Sequences, FiniteSets, TLC

\* ---------------------------------------------------------------------
\* Bounds of the model
\* ---------------------------------------------------------------------
\* longest trajectory
MaxWaypoints == 3

\* ---------------------------------------------------------------------
\* Constants of perform_trajectory and of the sleeps, in ticks
\* ---------------------------------------------------------------------
DRIFT_CATCHUP_MAX_SEC == 5
AHEAD_SLEEP_STEP_SEC == 1
\* asyncio.sleep(0.1) of the descent loop
DescentPollSleep == 1
\* asyncio.sleep(1) of perform_landing and wait_for_landing
LandingPollSleep == 10

\* ---------------------------------------------------------------------
\* Inputs
\* ---------------------------------------------------------------------
\* spacing between consecutive rows (offsets are non-decreasing)
TimeSteps == {0, 2, 5}
\* NED down of a row: altitude 0, 1 or 2
Downs == {0, -1, -2}
\* how long ago the synchronized start time was when the loop is entered
StartLates == {0, 2, 4, 50}
\* time the awaited calls of one loop pass may take, in ticks
Jitters == {0, 1}

\* The trajectories: first row at offset 0 and at the launch altitude, rows
\* evenly spaced (so offsets are non-decreasing).
Trajectories ==
    UNION { { [i \in 1..n |-> [t |-> (i - 1) * st, pz |-> dn[i]]] :
                st \in TimeSteps, dn \in {f \in [1..n -> Downs] : f[1] = 0} } :
            n \in 1..MaxWaypoints }

\* initial_position_drift: None, or the drift fetched while arming
None == [present |-> FALSE, north_m |-> 0, east_m |-> 0, down_m |-> 0]
PositionDrifts ==
    {None, [present |-> TRUE, north_m |-> 1, east_m |-> 0, down_m |-> -1]}

\* Values of src.params.Params that the loop and the landing read.
ParamsValues ==
    [ GROUND_ALTITUDE_THRESHOLD        : {1},
      MISSION_PROGRESS_THRESHOLD       : {50, 100},
      CONTROLLED_LANDING_TIME          : {2},
      CONTROLLED_LANDING_ALTITUDE      : {1},
      INITIAL_CLIMB_ALTITUDE_THRESHOLD : {0, 2},
      INITIAL_CLIMB_TIME_THRESHOLD     : {0, 3},
      LANDING_TIMEOUT                  : {2},
      DRIFT_CHECK_PERIOD               : {5},
      ENABLE_INITIAL_POSITION_CORRECTION : BOOLEAN,
      USE_GLOBAL_SETPOINTS             : {FALSE},
      FEEDFORWARD_VELOCITY_ENABLED     : {TRUE},
      FEEDFORWARD_ACCELERATION_ENABLED : {TRUE} ]

\* The same with every combination of the flags that choose the setpoint
\* call, the other fields at one value each.
DispatchParamsValues ==
    [ GROUND_ALTITUDE_THRESHOLD        : {1},
      MISSION_PROGRESS_THRESHOLD       : {100},
      CONTROLLED_LANDING_TIME          : {2},
      CONTROLLED_LANDING_ALTITUDE      : {1},
      INITIAL_CLIMB_ALTITUDE_THRESHOLD : {0, 2},
      INITIAL_CLIMB_TIME_THRESHOLD     : {0},
      LANDING_TIMEOUT                  : {2},
      DRIFT_CHECK_PERIOD               : {5},
      ENABLE_INITIAL_POSITION_CORRECTION : {TRUE},
      USE_GLOBAL_SETPOINTS             : BOOLEAN,
      FEEDFORWARD_VELOCITY_ENABLED     : BOOLEAN,
      FEEDFORWARD_ACCELERATION_ENABLED : BOOLEAN ]

\* Outcomes of an awaited command or telemetry read.
OK == "ok"
OFFBOARD_ERROR == "OffboardError"
EXCEPTION == "Exception"
CommandResults == {OK, OFFBOARD_ERROR, EXCEPTION}
ON_GROUND == "ON_GROUND"
IN_AIR == "IN_AIR"
LandedSamples == {ON_GROUND, IN_AIR, EXCEPTION}

\* LED colours: a waypoint's own colour, the fault colour, the done colour.
LED_INIT == "unset"
LED_WAYPOINT == "waypoint"
RED == "red"
GREEN == "green"

VARIABLES
    Params,                    \* configuration read by the code
    waypoints,                 \* the trajectory
    start_time,                \* synchronized start time
    initial_position_drift,    \* global position correction, or None
    now,                       \* time.time()
    pc,                        \* position of the coroutine
    waypoint_index,            \* perform_trajectory: cursor (0-based)
    landing_detected,          \* perform_trajectory: landing_detected
    initial_climb_completed,   \* perform_trajectory: climb latch
    initial_climb_start_time,  \* perform_trajectory: time at entry
    cl_ret,                    \* call site controlled_landing returns to
    cl_landing_detected,       \* controlled_landing: landing_detected
    landing_start_time,        \* controlled_landing: landing_start_time
    pl_ret,                    \* call site perform_landing returns to
    pl_start_time,             \* perform_landing / wait_for_landing: start_time
    led,                       \* last colour given to the LED controller
    dispatched,                \* history: cursor of every setpoint sent by the loop
    log,                       \* history: landing commands issued, in order
    lastIter,                  \* history: what the last loop iteration did
    loop_exit,                 \* history: how the loop ended
    cl_event,                  \* history: what the current controlled landing met
    exit_code,                 \* run_drone: status of sys.exit, -1 while running
    attempt_number,            \* tenacity: attempt of the retried function
    wait_start,                \* connection / health wait: local start_time
    home_position,             \* run_drone: result of pre_flight_checks
    launch_ref,                \* run_drone: launch_lat, launch_lon, launch_alt
    raised,                    \* the exception that is propagating
    arm_error,                 \* history: the exception the arm handler caught
    health_ok_seen,            \* history: a health sample had both flags
    origin_result,             \* history: outcome of the origin query
    position_sample,           \* history: first sample of the launch capture
    last_fetch,                \* history: answer to the latest correction GET
    csvfile,                   \* read_trajectory_file: the file named
    auto_launch_position,      \* read_trajectory_file: auto_launch_position
    initial_x,                 \* read_trajectory_file: initial_x of the config
    initial_y,                 \* read_trajectory_file: initial_y of the config
    boot_leds,                 \* history: colours shown by connection and checks
    gcs_params,                \* git_status.py: the Params the poller reads
    git_status_stats,          \* git_status.py: git_status_stats[hw_id]
    consecutive_errors,        \* poll_git_status: consecutive_errors
    git_polls                  \* history: outcome of every poll, in order

vars == << Params, waypoints, start_time, initial_position_drift, now, pc,
           waypoint_index, landing_detected, initial_climb_completed,
           initial_climb_start_time, cl_ret, cl_landing_detected,
           landing_start_time, pl_ret, pl_start_time, led, dispatched, log,
           lastIter, loop_exit, cl_event, exit_code, attempt_number,
           wait_start, home_position, launch_ref, raised, arm_error,
           health_ok_seen, origin_result, position_sample, last_fetch,
           csvfile, auto_launch_position, initial_x, initial_y, boot_leds,
           gcs_params, git_status_stats, consecutive_errors, git_polls >>

fileVars == << csvfile, auto_launch_position, initial_x, initial_y >>
gitVars == << gcs_params, git_status_stats, consecutive_errors, git_polls >>
rdVars == << exit_code, attempt_number, wait_start, home_position, launch_ref,
             raised, arm_error, health_ok_seen, origin_result,
             position_sample, last_fetch, boot_leds >>
inputs == << Params, waypoints, start_time, initial_position_drift, fileVars,
            gitVars >>
ptLocals == << waypoint_index, landing_detected, initial_climb_completed,
               initial_climb_start_time >>
clLocals == << cl_ret, cl_landing_detected, landing_start_time >>
plLocals == << pl_ret, pl_start_time >>

\* ---------------------------------------------------------------------
\* Pure computations of perform_trajectory
\* ---------------------------------------------------------------------
Min(a, b) == IF a <= b THEN a ELSE b

\* Python int(a / b) for b # 0: truncation towards zero
TruncDiv(a, b) ==
    IF (a >= 0) = (b > 0)
    THEN (IF a >= 0 THEN a ELSE -a) \div (IF b > 0 THEN b ELSE -b)
    ELSE -((IF a >= 0 THEN a ELSE -a) \div (IF b > 0 THEN b ELSE -b))

total_waypoints == Len(waypoints)

csv_step ==
    IF total_waypoints > 1 THEN waypoints[2].t - waypoints[1].t
    ELSE Params.DRIFT_CHECK_PERIOD

final_altitude == -waypoints[total_waypoints].pz

trajectory_ends_high == final_altitude > Params.GROUND_ALTITUDE_THRESHOLD

\* mutant: the raw down, never corrected
CorrectedPz_Raw(i) == waypoints[i + 1].pz

\* corrected down of the waypoint at 0-based cursor i
CorrectedPz(i) ==
    IF Params.ENABLE_INITIAL_POSITION_CORRECTION /\ initial_position_drift.present
    THEN waypoints[i + 1].pz + initial_position_drift.down_m
    ELSE waypoints[i + 1].pz

\* elapsed - t_wp for the waypoint at the cursor, at time tnow
DriftDelta(tnow) == (tnow - start_time) - waypoints[waypoint_index + 1].t

\* mutant: the gate is closed only while both conditions hold
InInitialClimb_Both(tnow) ==
    IF ~initial_climb_completed
    THEN /\ -CorrectedPz(waypoint_index) < Params.INITIAL_CLIMB_ALTITUDE_THRESHOLD
         /\ (tnow - initial_climb_start_time) < Params.INITIAL_CLIMB_TIME_THRESHOLD
    ELSE FALSE
\* mutant: the gate is looked at again after the climb was found complete
InInitialClimb_NoLatch(tnow) ==
    \/ -CorrectedPz(waypoint_index) < Params.INITIAL_CLIMB_ALTITUDE_THRESHOLD
    \/ (tnow - initial_climb_start_time) < Params.INITIAL_CLIMB_TIME_THRESHOLD
InInitialClimb(tnow) ==
    IF ~initial_climb_completed
    THEN \/ -CorrectedPz(waypoint_index) < Params.INITIAL_CLIMB_ALTITUDE_THRESHOLD
         \/ (tnow - initial_climb_start_time) < Params.INITIAL_CLIMB_TIME_THRESHOLD
    ELSE FALSE

\* mutant: the catch-up cap is left out
SafeDrift_NoCap(drift_delta) == drift_delta

SafeDrift(drift_delta) == Min(drift_delta, DRIFT_CATCHUP_MAX_SEC)

SkipCount(drift_delta, step) == TruncDiv(SafeDrift(drift_delta), step)

\* mutant: the skip is not clamped to the last index
DriftSkip_NoClamp(index, skip_count, total) ==
    IF skip_count > 0 THEN index + skip_count ELSE index

\* mutant: the skip count is taken as the new cursor
DriftSkip_Absolute(index, skip_count, total) ==
    IF skip_count > 0 THEN Min(skip_count, total - 1) ELSE index

\* cursor after the drift-skip step
DriftSkip(index, skip_count, total) ==
    IF skip_count > 0 THEN Min(index + skip_count, total - 1) ELSE index

\* mutant: the altitude test is not strict
LandingTrigger_AltLe(i) ==
    LET time_to_end    == waypoints[total_waypoints].t - waypoints[i + 1].t
        current_alt_sp == -CorrectedPz(i)
    IN  /\ ~trajectory_ends_high
        /\ (i + 1) * 100 >= Params.MISSION_PROGRESS_THRESHOLD * total_waypoints
        /\ \/ time_to_end <= Params.CONTROLLED_LANDING_TIME
           \/ current_alt_sp <= Params.CONTROLLED_LANDING_ALTITUDE

\* the landing decision taken after a dispatch at cursor i
LandingTrigger(i) ==
    LET time_to_end    == waypoints[total_waypoints].t - waypoints[i + 1].t
        current_alt_sp == -CorrectedPz(i)
    IN  /\ ~trajectory_ends_high
        /\ (i + 1) * 100 >= Params.MISSION_PROGRESS_THRESHOLD * total_waypoints
        /\ \/ time_to_end <= Params.CONTROLLED_LANDING_TIME
           \/ current_alt_sp < Params.CONTROLLED_LANDING_ALTITUDE

\* mutant: the feed-forward flags are looked at before the global flag
SetpointMode_LocalFirst ==
    IF Params.FEEDFORWARD_VELOCITY_ENABLED
       /\ Params.FEEDFORWARD_ACCELERATION_ENABLED
    THEN "position_velocity_acceleration_ned"
    ELSE IF Params.FEEDFORWARD_VELOCITY_ENABLED
    THEN "position_velocity_ned"
    ELSE IF Params.USE_GLOBAL_SETPOINTS
    THEN "position_global"
    ELSE "position_ned"

\* the offboard call that a dispatch makes
SetpointMode ==
    IF Params.USE_GLOBAL_SETPOINTS
    THEN "position_global"
    ELSE IF Params.FEEDFORWARD_VELOCITY_ENABLED
            /\ Params.FEEDFORWARD_ACCELERATION_ENABLED
    THEN "position_velocity_acceleration_ned"
    ELSE IF Params.FEEDFORWARD_VELOCITY_ENABLED
    THEN "position_velocity_ned"
    ELSE "position_ned"

NoIter == [kind |-> "none", pre |-> 0, idx |-> 0, drift |-> 0, res |-> OK,
           triggered |-> FALSE, mode |-> "none", pz |-> 0]

\* ---------------------------------------------------------------------
\* Initial state: perform_trajectory has just been entered
\* ---------------------------------------------------------------------
NoError == [type |-> "none", origin |-> "none"]
NoFetch == [kind |-> "none", drift |-> None]

\* initialize_git_status_tracking: the statistics of a drone before its
\* first poll
InitialGitStats ==
    [success_count |-> 0, failure_count |-> 0, consecutive_failures |-> 0,
     last_status |-> "None"]

\* Values of params.Params that the git-status poller reads.
GcsParamsValues ==
    [ ULTRA_QUIET_MODE           : BOOLEAN,
      POLLING_QUIET_MODE         : BOOLEAN,
      SUPPRESS_RECOVERY_MESSAGES : BOOLEAN,
      MIN_ERROR_THRESHOLD        : {2},
      ERROR_REPORT_THROTTLE      : {2} ]

\* start_git_status_polling has tracked the drone and no poll was made
GitTracked ==
    /\ git_status_stats = InitialGitStats
    /\ consecutive_errors = 0
    /\ git_polls = << >>

\* the ground station as the drone's own run sees it: not polling
PollerIdle ==
    /\ GitTracked
    /\ gcs_params = [ULTRA_QUIET_MODE |-> TRUE, POLLING_QUIET_MODE |-> TRUE,
                     SUPPRESS_RECOVERY_MESSAGES |-> TRUE,
                     MIN_ERROR_THRESHOLD |-> 2, ERROR_REPORT_THROTTLE |-> 2]

\* no trajectory file is being read
NoFile == [readable |-> TRUE, vx_column |-> TRUE, rows |-> << >>]
FileUnread ==
    /\ csvfile = NoFile
    /\ auto_launch_position = FALSE
    /\ initial_x = 0
    /\ initial_y = 0

\* what run_drone has established when it calls perform_trajectory
Bootstrapped ==
    /\ exit_code = -1
    /\ attempt_number = 1
    /\ wait_start = 0
    /\ home_position = "P"
    /\ launch_ref = "P"
    /\ raised = NoError
    /\ arm_error = NoError
    /\ health_ok_seen = TRUE
    /\ origin_result = "P"
    /\ position_sample = "P"
    /\ last_fetch = NoFetch
    /\ boot_leds = << "blue", "yellow", "green" >>

\* perform_trajectory entered with Params in P and the trajectory in W
InitEngine(P, W) ==
    /\ Bootstrapped
    /\ FileUnread
    /\ PollerIdle
    /\ Params \in P
    /\ waypoints \in W
    /\ \E late \in StartLates : start_time = -late
    /\ initial_position_drift \in PositionDrifts
    /\ now = 0
    /\ pc = "loop"
    /\ waypoint_index = 0
    /\ landing_detected = FALSE
    /\ initial_climb_completed = FALSE
    /\ initial_climb_start_time = 0
    /\ cl_ret = "none"
    /\ cl_landing_detected = FALSE
    /\ landing_start_time = 0
    /\ pl_ret = "none"
    /\ pl_start_time = 0
    /\ led = LED_INIT
    /\ dispatched = << >>
    /\ log = << >>
    /\ lastIter = NoIter
    /\ loop_exit = "none"
    /\ cl_event = "none"

InitLoop == InitEngine(ParamsValues, Trajectories)

\* The inputs of the runs that are followed through the landing: no position
\* correction, the climb gated by altitude only, a start time 0.2 s ago.
Init ==
    /\ InitLoop
    /\ ~initial_position_drift.present
    /\ Params.ENABLE_INITIAL_POSITION_CORRECTION
    /\ Params.INITIAL_CLIMB_TIME_THRESHOLD = 0
    /\ start_time = -2

\* ---------------------------------------------------------------------
\* perform_trajectory: the main loop (one action per kind of iteration)
\* ---------------------------------------------------------------------
InLoop == pc = "loop" /\ waypoint_index < total_waypoints

\* the loop's except clauses: fault colour, break
LoopBreakOnError ==
    /\ led' = RED
    /\ pc' = "post"
    /\ loop_exit' = "error"

\* mutant: the whole remaining time is slept at once
LoopAhead_FullSleep(dt) ==
    /\ InLoop
    /\ DriftDelta(now) < 0
    /\ LET sleep_duration == waypoints[waypoint_index + 1].t - (now - start_time)
       IN  IF sleep_duration > 0
           THEN /\ now' = now + sleep_duration + dt
                /\ waypoint_index' = waypoint_index
           ELSE /\ now' = now
                /\ waypoint_index' = waypoint_index + 1
    /\ lastIter' = [kind |-> "ahead", pre |-> waypoint_index,
                    idx |-> waypoint_index, drift |-> DriftDelta(now),
                    res |-> OK, triggered |-> FALSE, mode |-> "none",
                    pz |-> 0]
    /\ UNCHANGED << rdVars, inputs, pc, landing_detected, initial_climb_completed,
                    initial_climb_start_time, clLocals, plLocals, led,
                    dispatched, log, loop_exit, cl_event >>
\* Case B: ahead of schedule; bounded sleep, cursor kept
LoopAhead(dt) ==
    /\ InLoop
    /\ DriftDelta(now) < 0
    /\ LET sleep_duration == waypoints[waypoint_index + 1].t - (now - start_time)
       IN  IF sleep_duration > 0
           THEN /\ now' = now + Min(sleep_duration, AHEAD_SLEEP_STEP_SEC) + dt
                /\ waypoint_index' = waypoint_index
           ELSE /\ now' = now
                /\ waypoint_index' = waypoint_index + 1
    /\ lastIter' = [kind |-> "ahead", pre |-> waypoint_index,
                    idx |-> waypoint_index, drift |-> DriftDelta(now),
                    res |-> OK, triggered |-> FALSE, mode |-> "none",
                    pz |-> 0]
    /\ UNCHANGED << rdVars, inputs, pc, landing_detected, initial_climb_completed,
                    initial_climb_start_time, clLocals, plLocals, led,
                    dispatched, log, loop_exit, cl_event >>

\* Case A, initial climb: one climb command, cursor advanced by one
LoopClimb(r, dt) ==
    /\ InLoop
    /\ DriftDelta(now) >= 0
    /\ InInitialClimb(now)
    /\ now' = now + dt
    /\ lastIter' = [kind |-> "climb", pre |-> waypoint_index,
                    idx |-> waypoint_index, drift |-> DriftDelta(now),
                    res |-> r, triggered |-> FALSE, mode |-> "climb",
                    pz |-> CorrectedPz(waypoint_index)]
    /\ IF r = OK
       THEN /\ led' = LED_WAYPOINT
            /\ dispatched' = Append(dispatched, waypoint_index)
            /\ waypoint_index' = waypoint_index + 1
            /\ UNCHANGED << pc, loop_exit >>
       ELSE /\ LoopBreakOnError
            /\ UNCHANGED << dispatched, waypoint_index >>
    /\ UNCHANGED << rdVars, inputs, landing_detected, initial_climb_completed,
                    initial_climb_start_time, clLocals, plLocals, log,
                    cl_event >>

\* Case A after the climb: drift-skip, dispatch, landing decision, advance
LoopDispatch(r, dt) ==
    /\ InLoop
    /\ DriftDelta(now) >= 0
    /\ ~InInitialClimb(now)
    /\ initial_climb_completed' = TRUE
    /\ now' = now + dt
    /\ IF csv_step = 0
       THEN \* int(safe_drift / csv_step) raises ZeroDivisionError
            /\ lastIter' = [kind |-> "dispatch", pre |-> waypoint_index,
                            idx |-> waypoint_index, drift |-> DriftDelta(now),
                            res |-> "ZeroDivisionError", triggered |-> FALSE,
                            mode |-> "none", pz |-> 0]
            /\ LoopBreakOnError
            /\ UNCHANGED << waypoint_index, dispatched, cl_ret >>
       ELSE LET skipped == DriftSkip(waypoint_index,
                                     SkipCount(DriftDelta(now), csv_step),
                                     total_waypoints)
                \* waypoints[waypoint_index] after the skip raises IndexError
                \* past the last row
                failed  == IF skipped > total_waypoints - 1 THEN "IndexError"
                           ELSE r
                trigger == failed = OK /\ LandingTrigger(skipped)
            IN  /\ lastIter' = [kind |-> "dispatch", pre |-> waypoint_index,
                                idx |-> skipped, drift |-> DriftDelta(now),
                                res |-> failed, triggered |-> trigger,
                                mode |-> IF failed = "IndexError" THEN "none"
                                         ELSE SetpointMode,
                                pz |-> IF failed = "IndexError" THEN 0
                                       ELSE CorrectedPz(skipped)]
                /\ IF failed # OK
                   THEN /\ LoopBreakOnError
                        /\ waypoint_index' = skipped
                        /\ UNCHANGED << dispatched, cl_ret >>
                   ELSE /\ led' = LED_WAYPOINT
                        /\ dispatched' = Append(dispatched, skipped)
                        /\ IF trigger
                           THEN /\ waypoint_index' = skipped
                                /\ pc' = "cl_setup"
                                /\ cl_ret' = "trigger"
                                /\ loop_exit' = "trigger"
                           ELSE /\ waypoint_index' = skipped + 1
                                /\ UNCHANGED << pc, cl_ret, loop_exit >>
    /\ UNCHANGED << rdVars, inputs, landing_detected, initial_climb_start_time,
                    cl_landing_detected, landing_start_time, plLocals, log,
                    cl_event >>

\* while condition false: the cursor is exhausted
LoopExhausted ==
    /\ pc = "loop"
    /\ waypoint_index >= total_waypoints
    /\ pc' = "post"
    /\ loop_exit' = "exhausted"
    /\ UNCHANGED << rdVars, inputs, now, ptLocals, clLocals, plLocals, led,
                    dispatched, log, lastIter, cl_event >>

\* controlled_landing(drone) called at the trigger returned: landing_detected, break
TriggerReturn ==
    /\ pc = "trigger_ret"
    /\ landing_detected' = TRUE
    /\ pc' = "post"
    /\ UNCHANGED << rdVars, inputs, now, waypoint_index, initial_climb_completed,
                    initial_climb_start_time, clLocals, plLocals, led,
                    dispatched, log, lastIter, loop_exit, cl_event >>

\* controlled_landing(drone) called at the trigger raised: except Exception, break
TriggerRaised ==
    /\ pc = "trigger_raised"
    /\ led' = RED
    /\ pc' = "post"
    /\ UNCHANGED << rdVars, inputs, now, ptLocals, clLocals, plLocals, dispatched,
                    log, lastIter, loop_exit, cl_event >>

\* ---------------------------------------------------------------------
\* perform_trajectory: post-trajectory landing handling
\* ---------------------------------------------------------------------
\* mutant: commandable mode is not stopped before the native landing
PostNative_NoStop ==
    /\ pc = "post"
    /\ ~landing_detected
    /\ trajectory_ends_high
    /\ pc' = "pl_land"
    /\ pl_ret' = "post"
    /\ UNCHANGED << rdVars, inputs, now, ptLocals, clLocals, pl_start_time, led,
                    dispatched, log, lastIter, loop_exit, cl_event >>

\* trajectory ends high: stop_offboard_mode, then perform_landing
PostNative ==
    /\ pc = "post"
    /\ ~landing_detected
    /\ trajectory_ends_high
    /\ log' = Append(log, "stop")
    /\ pc' = "pl_land"
    /\ pl_ret' = "post"
    /\ UNCHANGED << rdVars, inputs, now, ptLocals, clLocals, pl_start_time, led,
                    dispatched, lastIter, loop_exit, cl_event >>

\* trajectory ends low: controlled_landing
PostControlled ==
    /\ pc = "post"
    /\ ~landing_detected
    /\ ~trajectory_ends_high
    /\ pc' = "cl_setup"
    /\ cl_ret' = "post"
    /\ UNCHANGED << rdVars, inputs, now, ptLocals, cl_landing_detected,
                    landing_start_time, plLocals, led, dispatched, log,
                    lastIter, loop_exit, cl_event >>

\* "Mission complete.": green, return
PostFinish ==
    /\ \/ pc = "post" /\ landing_detected
       \/ pc = "post_cl_ret"
       \/ pc = "wfl_ret"
    /\ led' = GREEN
    /\ pc' = "done"
    /\ UNCHANGED << rdVars, inputs, now, ptLocals, clLocals, plLocals, dispatched,
                    log, lastIter, loop_exit, cl_event >>

\* ---------------------------------------------------------------------
\* perform_landing: native landing command, then wait for the ground
\* ---------------------------------------------------------------------
ActionResults == {OK, "ActionError"}

PLReturnPc ==
    CASE pl_ret = "cl_timeout"  -> "cl_timeout_ret"
      [] pl_ret = "cl_fallback" -> "cl_fallback_ret"
      [] OTHER                  -> "post_pl_ret"

\* mutant: perform_landing returns as soon as the land command is sent
PL_Land_NoWait(r) ==
    /\ pc = "pl_land"
    /\ now' = now
    /\ log' = IF r = OK THEN Append(log, "land")
              ELSE log \o << "land", "land_failed" >>
    /\ pc' = PLReturnPc
    /\ UNCHANGED << rdVars, inputs, ptLocals, clLocals, plLocals, led, dispatched,
                    lastIter, loop_exit, cl_event >>

\* await drone.action.land(); an error is logged and swallowed
PL_Land(r) ==
    /\ pc = "pl_land"
    /\ now' = now
    /\ IF r = OK
       THEN /\ log' = Append(log, "land")
            /\ pl_start_time' = now
            /\ pc' = "pl_poll"
       ELSE /\ log' = log \o << "land", "land_failed" >>
            /\ pc' = PLReturnPc
            /\ UNCHANGED pl_start_time
    /\ UNCHANGED << rdVars, inputs, ptLocals, clLocals, pl_ret, led, dispatched,
                    lastIter, loop_exit, cl_event >>

\* one pass of perform_landing's while True
PL_Poll(s) ==
    /\ pc = "pl_poll"
    /\ log' = Append(log, "wait")
    /\ IF s = IN_AIR /\ ~(now - pl_start_time > Params.LANDING_TIMEOUT)
       THEN /\ now' = now + LandingPollSleep
            /\ UNCHANGED pc
       ELSE /\ now' = now
            /\ pc' = PLReturnPc
    /\ UNCHANGED << rdVars, inputs, ptLocals, clLocals, plLocals, led, dispatched,
                    lastIter, loop_exit, cl_event >>

\* perform_trajectory after perform_landing: wait_for_landing starts
PostNativeReturn ==
    /\ pc = "post_pl_ret"
    /\ pl_start_time' = now
    /\ pc' = "wfl"
    /\ UNCHANGED << rdVars, inputs, now, ptLocals, clLocals, pl_ret, led, dispatched,
                    log, lastIter, loop_exit, cl_event >>

\* one pass of wait_for_landing's while True; a telemetry error is not caught
WFL_Poll(s) ==
    /\ pc = "wfl"
    /\ log' = Append(log, "wait")
    /\ IF s = EXCEPTION
       THEN /\ now' = now
            /\ pc' = "raised"
       ELSE IF s = IN_AIR /\ ~(now - pl_start_time > Params.LANDING_TIMEOUT)
       THEN /\ now' = now + LandingPollSleep
            /\ UNCHANGED pc
       ELSE /\ now' = now
            /\ pc' = "wfl_ret"
    /\ UNCHANGED << rdVars, inputs, ptLocals, clLocals, plLocals, led, dispatched,
                    lastIter, loop_exit, cl_event >>

\* ---------------------------------------------------------------------
\* controlled_landing
\* ---------------------------------------------------------------------
CLReturnPc == IF cl_ret = "trigger" THEN "trigger_ret" ELSE "post_cl_ret"
CLRaisePc == IF cl_ret = "trigger" THEN "trigger_raised" ELSE "raised"

\* entry and the first descent setpoint
CL_Setup(r) ==
    /\ pc = "cl_setup"
    /\ cl_landing_detected' = FALSE
    /\ landing_start_time' = now
    /\ now' = now
    /\ CASE r = OK ->
              /\ log' = Append(log, "cl")
              /\ cl_event' = "none"
              /\ pc' = "cl_loop"
              /\ UNCHANGED led
         [] r = OFFBOARD_ERROR ->
              /\ log' = log \o << "cl", "red" >>
              /\ cl_event' = "setup_error"
              /\ led' = RED
              /\ pc' = CLReturnPc
         [] OTHER ->
              /\ log' = Append(log, "cl")
              /\ cl_event' = "setup_raised"
              /\ pc' = CLRaisePc
              /\ UNCHANGED led
    /\ UNCHANGED << rdVars, inputs, ptLocals, cl_ret, plLocals, dispatched, lastIter,
                    loop_exit >>

\* mutant: a pass takes no time and never leaves the descent loop
CL_Poll_Spin(r, s, dt) ==
    /\ pc = "cl_loop"
    /\ cl_landing_detected' = (s = ON_GROUND)
    /\ UNCHANGED << rdVars, inputs, now, pc, ptLocals, cl_ret, landing_start_time,
                    plLocals, led, dispatched, log, lastIter, loop_exit,
                    cl_event >>

\* one pass of the descent loop: setpoint, one landed_state sample, timeout
\* check, sleep
CL_Poll(r, s, dt) ==
    /\ pc = "cl_loop"
    /\ IF r # OK \/ s = EXCEPTION
       THEN /\ log' = Append(log, "red")
            /\ led' = RED
            /\ cl_event' = IF r = OFFBOARD_ERROR THEN "loop_error"
                           ELSE "loop_exception"
            /\ now' = now + dt
            /\ pc' = "cl_after"
            /\ UNCHANGED << cl_landing_detected, pl_ret >>
       ELSE /\ cl_landing_detected' = (s = ON_GROUND)
            /\ IF ((now + dt) - landing_start_time) > Params.LANDING_TIMEOUT
               THEN \* stop_offboard_mode, perform_landing, break
                    /\ log' = Append(log, "stop")
                    /\ cl_event' = "timeout"
                    /\ now' = now + dt
                    /\ pc' = "pl_land"
                    /\ pl_ret' = "cl_timeout"
                    /\ UNCHANGED led
               ELSE /\ now' = now + dt + DescentPollSleep
                    /\ pc' = IF s = ON_GROUND THEN "cl_after" ELSE "cl_loop"
                    /\ UNCHANGED << log, led, cl_event, pl_ret >>
    /\ UNCHANGED << rdVars, inputs, ptLocals, cl_ret, landing_start_time,
                    pl_start_time, dispatched, lastIter, loop_exit >>

\* perform_landing of the timeout branch returned: break
CL_TimeoutReturn ==
    /\ pc = "cl_timeout_ret"
    /\ pc' = "cl_after"
    /\ UNCHANGED << rdVars, inputs, now, ptLocals, clLocals, plLocals, led,
                    dispatched, log, lastIter, loop_exit, cl_event >>

\* after the loop, landing detected: stop_offboard_mode, disarm_drone, green
CL_Grounded ==
    /\ pc = "cl_after"
    /\ cl_landing_detected
    /\ log' = log \o << "stop", "disarm" >>
    /\ led' = GREEN
    /\ now' = now
    /\ pc' = CLReturnPc
    /\ UNCHANGED << rdVars, inputs, ptLocals, clLocals, plLocals, dispatched,
                    lastIter, loop_exit, cl_event >>

\* mutant: the fallback lands without stopping commandable mode
CL_Fallback_NoStop ==
    /\ pc = "cl_after"
    /\ ~cl_landing_detected
    /\ pc' = "pl_land"
    /\ pl_ret' = "cl_fallback"
    /\ UNCHANGED << rdVars, inputs, now, ptLocals, clLocals, pl_start_time, led,
                    dispatched, log, lastIter, loop_exit, cl_event >>

\* after the loop, landing not detected: stop_offboard_mode, perform_landing
CL_Fallback ==
    /\ pc = "cl_after"
    /\ ~cl_landing_detected
    /\ log' = Append(log, "stop")
    /\ pc' = "pl_land"
    /\ pl_ret' = "cl_fallback"
    /\ UNCHANGED << rdVars, inputs, now, ptLocals, clLocals, pl_start_time, led,
                    dispatched, lastIter, loop_exit, cl_event >>

\* perform_landing of the fallback returned: green, return
CL_FallbackReturn ==
    /\ pc = "cl_fallback_ret"
    /\ led' = GREEN
    /\ pc' = CLReturnPc
    /\ UNCHANGED << rdVars, inputs, now, ptLocals, clLocals, plLocals, dispatched,
                    log, lastIter, loop_exit, cl_event >>

\* ---------------------------------------------------------------------
\* run_drone: how the process ends
\* ---------------------------------------------------------------------
sys_exit(code) ==
    /\ exit_code' = code
    /\ pc' = "exit"

ptState == << ptLocals, clLocals, plLocals, dispatched, lastIter, loop_exit,
              cl_event >>

\* perform_trajectory returned: "Mission completed successfully", exit 0
RunDroneExit ==
    /\ pc = "done"
    /\ sys_exit(0)
    /\ UNCHANGED << inputs, ptState, now, led, log, attempt_number, wait_start,
                    home_position, launch_ref, raised, arm_error,
                    health_ok_seen, origin_result, position_sample,
                    last_fetch >>
    /\ UNCHANGED boot_leds

\* the except clause of run_drone: any exception ends the process with 1
RunDroneExcept ==
    /\ pc \in {"raised", "rd_raised"}
    /\ sys_exit(1)
    /\ UNCHANGED << inputs, ptState, now, led, log, attempt_number, wait_start,
                    home_position, launch_ref, raised, arm_error,
                    health_ok_seen, origin_result, position_sample,
                    last_fetch >>
    /\ UNCHANGED boot_leds

\* ---------------------------------------------------------------------
\* Specification
\* ---------------------------------------------------------------------
Next ==
    \/ \E dt \in Jitters : LoopAhead(dt)
    \/ \E r \in CommandResults, dt \in Jitters : LoopClimb(r, dt)
    \/ \E r \in CommandResults, dt \in Jitters : LoopDispatch(r, dt)
    \/ LoopExhausted
    \/ TriggerReturn
    \/ TriggerRaised
    \/ PostNative
    \/ PostControlled
    \/ PostFinish
    \/ \E r \in ActionResults : PL_Land(r)
    \/ \E s \in LandedSamples : PL_Poll(s)
    \/ PostNativeReturn
    \/ \E s \in LandedSamples : WFL_Poll(s)
    \/ \E r \in CommandResults : CL_Setup(r)
    \/ \E r \in CommandResults, s \in LandedSamples, dt \in Jitters :
           CL_Poll(r, s, dt)
    \/ CL_TimeoutReturn
    \/ CL_Grounded
    \/ CL_Fallback
    \/ CL_FallbackReturn
    \/ RunDroneExit
    \/ RunDroneExcept

\* the whole of perform_trajectory, landing included, and the exit of run_drone
Spec == Init /\ [][Next]_vars

\* The runs whose termination is followed: rows 0.2 s apart, the landing
\* trigger at the end of the mission.
InitFair ==
    /\ Init
    /\ Params.MISSION_PROGRESS_THRESHOLD = 100
    /\ \A i \in 1..Len(waypoints) : waypoints[i].t = (i - 1) * 2

\* every awaited call returns: a step that can be taken is taken
SpecFair == InitFair /\ [][Next]_vars /\ WF_vars(Next)

\* the main loop alone, over all the inputs: a run ends where the loop ends
\* (cursor exhausted, break, or the call of controlled_landing)
NextLoop ==
    \/ \E dt \in Jitters : LoopAhead(dt)
    \/ \E r \in CommandResults, dt \in Jitters : LoopClimb(r, dt)
    \/ \E r \in CommandResults, dt \in Jitters : LoopDispatch(r, dt)
    \/ LoopExhausted

SpecLoop == InitLoop /\ [][NextLoop]_vars

\* the main loop when the coroutine keeps running: every awaited call
\* returns, so a pass that can be made is made
SpecLoopFair == InitLoop /\ [][NextLoop]_vars /\ WF_vars(NextLoop)

\* the main loop under every choice of the setpoint call
InitDispatch == InitEngine(DispatchParamsValues, Trajectories)

SpecDispatch == InitDispatch /\ [][NextLoop]_vars

\* ---------------------------------------------------------------------
\* run_drone: from the start of the process to the call of perform_trajectory
\* (time in ticks of 0.1 s)
\* ---------------------------------------------------------------------
ServerSpinUp == 20
ConnectTimeout == 100
ConnectPollSleep == 10
ConnectRetryWait == 50
HealthPollSleep == 10
ArmRetryWait == 20

BLUE == "blue"
YELLOW == "yellow"
WHITE == "white"

\* global positions a telemetry query can return
GeoPoints == {"P", "Q"}

\* synchronized start times, counted from the start of the process: one that a
\* slow bootstrap passes, one that is always ahead
BootStartTimes == {200, 1000}

\* Params of a bootstrap: the fields of the flight at one value each
BootParamsValues ==
    [GROUND_ALTITUDE_THRESHOLD : {1},
     MISSION_PROGRESS_THRESHOLD : {100},
     CONTROLLED_LANDING_TIME : {2},
     CONTROLLED_LANDING_ALTITUDE : {1},
     INITIAL_CLIMB_ALTITUDE_THRESHOLD : {2},
     INITIAL_CLIMB_TIME_THRESHOLD : {0},
     LANDING_TIMEOUT : {2},
     DRIFT_CHECK_PERIOD : {5},
     ENABLE_INITIAL_POSITION_CORRECTION : {TRUE},
     PREFLIGHT_MAX_RETRIES : {1, 2},
     PRE_FLIGHT_TIMEOUT : {20},
     REQUIRE_GLOBAL_POSITION : BOOLEAN]

HealthSamples == [is_global_position_ok : BOOLEAN, is_home_position_ok : BOOLEAN]

\* the position the service reports: it can differ from one GET to the next
FetchedDrifts ==
    (PositionDrifts \ {None})
    \cup {[present |-> TRUE, north_m |-> 0, east_m |-> 2, down_m |-> 0]}

\* the files read in a bootstrap: level flight, rows 0.2 s apart
LoadedTrajectories ==
    {w \in Trajectories : \A i \in 1..Len(w) : w[i].t = (i - 1) * 2 /\ w[i].pz = 0}

\* what the local position service answers to the GET of the correction
FetchOutcomes ==
    {[kind |-> k, drift |-> None] :
        k \in {"request_exception", "http_error", "missing_field", "not_object"}}
    \cup {[kind |-> "ok", drift |-> d] : d \in FetchedDrifts}

Err(type, origin) == [type |-> type, origin |-> origin]

\* compute_position_drift: the value returned, or the exception that escapes.
\* A body that is JSON but no object makes ned_data['x'] a TypeError, which
\* neither except clause names.
compute_position_drift_Default(f) ==
    CASE f.kind = "ok" -> [raises |-> NoError, value |-> f.drift]
      [] f.kind \in {"request_exception", "http_error", "missing_field"} ->
            [raises |-> NoError,
             value |-> [present |-> TRUE, north_m |-> 0, east_m |-> 0,
                        down_m |-> 0]]
      [] OTHER -> [raises |-> Err("TypeError", "fetch"), value |-> None]
compute_position_drift(f) ==
    CASE f.kind = "ok" -> [raises |-> NoError, value |-> f.drift]
      [] f.kind \in {"request_exception", "http_error", "missing_field"} ->
            [raises |-> NoError, value |-> None]
      [] OTHER -> [raises |-> Err("TypeError", "fetch"), value |-> None]

\* tenacity stop_after_attempt(Params.PREFLIGHT_MAX_RETRIES)
stop_after_attempt_Late == attempt_number > Params.PREFLIGHT_MAX_RETRIES
stop_after_attempt == attempt_number >= Params.PREFLIGHT_MAX_RETRIES

\* run_drone entered
RunDroneEntered ==
    /\ FileUnread
    /\ Params \in BootParamsValues
    /\ waypoints = << >>
    /\ start_time \in BootStartTimes
    /\ initial_position_drift = None
    /\ now = 0
    /\ pc = "rd_start"
    /\ waypoint_index = 0
    /\ landing_detected = FALSE
    /\ initial_climb_completed = FALSE
    /\ initial_climb_start_time = 0
    /\ cl_ret = "none"
    /\ cl_landing_detected = FALSE
    /\ landing_start_time = 0
    /\ pl_ret = "none"
    /\ pl_start_time = 0
    /\ led = LED_INIT
    /\ dispatched = << >>
    /\ log = << >>
    /\ lastIter = NoIter
    /\ loop_exit = "none"
    /\ cl_event = "none"
    /\ exit_code = -1
    /\ attempt_number = 1
    /\ wait_start = 0
    /\ home_position = "None"
    /\ launch_ref = "None"
    /\ raised = NoError
    /\ arm_error = NoError
    /\ health_ok_seen = FALSE
    /\ origin_result = "none"
    /\ position_sample = "none"
    /\ last_fetch = NoFetch
    /\ boot_leds = << >>

InitBoot ==
    /\ RunDroneEntered
    /\ PollerIdle

\* the colours shown so far by the connection and the pre-flight checks,
\* after set_color(c): a colour set again while it shows adds nothing
Shown(h, c) == IF h # << >> /\ h[Len(h)] = c THEN h ELSE Append(h, c)

config == << Params, start_time, fileVars, gitVars >>
bootHist == << health_ok_seen, origin_result, position_sample, last_fetch >>

\* Step 1: start the MAVSDK server, give it 2 s
StartServer(started) ==
    /\ pc = "rd_start"
    /\ IF started
       THEN /\ now' = now + ServerSpinUp
            /\ pc' = "connect"
            /\ UNCHANGED exit_code
       ELSE /\ sys_exit(1)
            /\ UNCHANGED now
    /\ UNCHANGED << config, waypoints, initial_position_drift, ptState, led,
                    log, attempt_number, wait_start, home_position, launch_ref,
                    raised, arm_error, bootHist >>
    /\ UNCHANGED boot_leds

\* initial_setup_and_connection: one attempt begins
ConnectBegin(r) ==
    /\ pc = "connect"
    /\ log' = Append(log, "connect")
    /\ IF r = OK
       THEN /\ led' = BLUE
            /\ wait_start' = now
            /\ pc' = "connect_wait"
            /\ UNCHANGED raised
       ELSE /\ led' = RED
            /\ raised' = Err(r, "connect")
            /\ pc' = "connect_failed"
            /\ UNCHANGED wait_start
    /\ UNCHANGED << config, waypoints, initial_position_drift, ptState, now,
                    exit_code, attempt_number, home_position, launch_ref,
                    arm_error, bootHist >>
    /\ boot_leds' = IF r = OK THEN Shown(boot_leds, BLUE)
                    ELSE Shown(Shown(boot_leds, BLUE), RED)

\* one sample of connection_state
ConnectPoll_Early(is_connected) ==
    /\ pc = "connect_wait"
    /\ IF is_connected
       THEN /\ pc' = "preflight"
            /\ UNCHANGED << led, raised, now >>
       ELSE IF now - wait_start >= ConnectTimeout
            THEN /\ led' = RED
                 /\ raised' = Err("TimeoutError", "connection_state")
                 /\ pc' = "connect_failed"
                 /\ UNCHANGED now
            ELSE /\ now' = now + ConnectPollSleep
                 /\ UNCHANGED << led, raised, pc >>
    /\ UNCHANGED << config, waypoints, initial_position_drift, ptState, log,
                    exit_code, attempt_number, wait_start, home_position,
                    launch_ref, arm_error, bootHist >>
    /\ boot_leds' = IF led' = RED THEN Shown(boot_leds, RED) ELSE boot_leds
ConnectPoll(is_connected) ==
    /\ pc = "connect_wait"
    /\ IF is_connected
       THEN /\ pc' = "preflight"
            /\ UNCHANGED << led, raised, now >>
       ELSE IF now - wait_start > ConnectTimeout
            THEN /\ led' = RED
                 /\ raised' = Err("TimeoutError", "connection_state")
                 /\ pc' = "connect_failed"
                 /\ UNCHANGED now
            ELSE /\ now' = now + ConnectPollSleep
                 /\ UNCHANGED << led, raised, pc >>
    /\ UNCHANGED << config, waypoints, initial_position_drift, ptState, log,
                    exit_code, attempt_number, wait_start, home_position,
                    launch_ref, arm_error, bootHist >>
    /\ boot_leds' = IF led' = RED THEN Shown(boot_leds, RED) ELSE boot_leds

\* tenacity around initial_setup_and_connection: wait 5 s and call again, or
\* give up with RetryError
ConnectRetry ==
    /\ pc = "connect_failed"
    /\ IF stop_after_attempt
       THEN /\ raised' = Err("RetryError", raised.origin)
            /\ pc' = "rd_raised"
            /\ UNCHANGED << now, attempt_number >>
       ELSE /\ now' = now + ConnectRetryWait
            /\ attempt_number' = attempt_number + 1
            /\ pc' = "connect"
            /\ UNCHANGED raised
    /\ UNCHANGED << config, waypoints, initial_position_drift, ptState, led,
                    log, exit_code, wait_start, home_position, launch_ref,
                    arm_error, bootHist >>
    /\ UNCHANGED boot_leds

\* mutant: the checks begin under green, yellow is never shown
PreflightBegin_Green ==
    /\ pc = "preflight"
    /\ wait_start' = now
    /\ IF Params.REQUIRE_GLOBAL_POSITION
       THEN /\ led' = GREEN
            /\ pc' = "health"
       ELSE /\ led' = GREEN
            /\ pc' = "capture"
    /\ home_position' = "None"
    /\ UNCHANGED << config, waypoints, initial_position_drift, ptState, now,
                    log, exit_code, attempt_number, launch_ref, raised,
                    arm_error, bootHist >>
    /\ boot_leds' = Shown(boot_leds, GREEN)
\* pre_flight_checks: entry; without REQUIRE_GLOBAL_POSITION nothing is checked
PreflightBegin ==
    /\ pc = "preflight"
    /\ wait_start' = now
    /\ IF Params.REQUIRE_GLOBAL_POSITION
       THEN /\ led' = YELLOW
            /\ pc' = "health"
       ELSE /\ led' = GREEN
            /\ pc' = "capture"
    /\ home_position' = "None"
    /\ UNCHANGED << config, waypoints, initial_position_drift, ptState, now,
                    log, exit_code, attempt_number, launch_ref, raised,
                    arm_error, bootHist >>
    /\ boot_leds' = IF Params.REQUIRE_GLOBAL_POSITION
                    THEN Shown(boot_leds, YELLOW)
                    ELSE Shown(Shown(boot_leds, YELLOW), GREEN)

\* one sample of telemetry.health(): the timeout is looked at before the flags
HealthPoll_GlobalOnly(health) ==
    /\ pc = "health"
    /\ IF now - wait_start > Params.PRE_FLIGHT_TIMEOUT
       THEN /\ led' = RED
            /\ raised' = Err("TimeoutError", "health")
            /\ pc' = "rd_raised"
            /\ UNCHANGED << now, health_ok_seen >>
       ELSE IF health.is_global_position_ok
            THEN /\ health_ok_seen' = health.is_home_position_ok
                 /\ pc' = "origin"
                 /\ UNCHANGED << led, raised, now >>
            ELSE /\ now' = now + HealthPollSleep
                 /\ UNCHANGED << led, raised, pc, health_ok_seen >>
    /\ UNCHANGED << config, waypoints, initial_position_drift, ptState, log,
                    exit_code, attempt_number, wait_start, home_position,
                    launch_ref, arm_error, origin_result, position_sample,
                    last_fetch >>
    /\ boot_leds' = IF led' = RED THEN Shown(boot_leds, RED) ELSE boot_leds
HealthPoll(health) ==
    /\ pc = "health"
    /\ IF now - wait_start > Params.PRE_FLIGHT_TIMEOUT
       THEN /\ led' = RED
            /\ raised' = Err("TimeoutError", "health")
            /\ pc' = "rd_raised"
            /\ UNCHANGED << now, health_ok_seen >>
       ELSE IF health.is_global_position_ok /\ health.is_home_position_ok
            THEN /\ health_ok_seen' = TRUE
                 /\ pc' = "origin"
                 /\ UNCHANGED << led, raised, now >>
            ELSE /\ now' = now + HealthPollSleep
                 /\ UNCHANGED << led, raised, pc, health_ok_seen >>
    /\ UNCHANGED << config, waypoints, initial_position_drift, ptState, log,
                    exit_code, attempt_number, wait_start, home_position,
                    launch_ref, arm_error, origin_result, position_sample,
                    last_fetch >>
    /\ boot_leds' = IF led' = RED THEN Shown(boot_leds, RED) ELSE boot_leds

\* Phase 2 of pre_flight_checks: the origin query, on TelemetryError the first
\* position sample instead
OriginQuery(origin, pos) ==
    /\ pc = "origin"
    /\ origin_result' = origin
    /\ LET gps_origin == IF origin \in GeoPoints THEN origin
                         ELSE IF origin = "TelemetryError" THEN pos
                         ELSE "None"
       IN  IF origin = EXCEPTION \/ gps_origin = "None"
           THEN /\ led' = RED
                /\ raised' = IF origin = EXCEPTION
                             THEN Err(EXCEPTION, "origin")
                             ELSE Err("ValueError", "origin")
                /\ pc' = "rd_raised"
                /\ UNCHANGED home_position
           ELSE /\ led' = GREEN
                /\ home_position' = gps_origin
                /\ pc' = "capture"
                /\ UNCHANGED raised
    /\ UNCHANGED << config, waypoints, initial_position_drift, ptState, now,
                    log, exit_code, attempt_number, wait_start, launch_ref,
                    arm_error, health_ok_seen, position_sample, last_fetch >>
    /\ boot_leds' = Shown(boot_leds, led')

\* run_drone: launch_lat, launch_lon, launch_alt from the first position sample
CaptureLaunch_FromHome(pos) ==
    /\ pc = "capture"
    /\ position_sample' = pos
    /\ launch_ref' = home_position
    /\ IF pos = "None"
       THEN sys_exit(1)
       ELSE /\ pc' = "sync"
            /\ UNCHANGED exit_code
    /\ UNCHANGED << config, waypoints, initial_position_drift, ptState, now,
                    led, log, attempt_number, wait_start, home_position,
                    raised, arm_error, health_ok_seen, origin_result,
                    last_fetch >>
    /\ UNCHANGED boot_leds
CaptureLaunch(pos) ==
    /\ pc = "capture"
    /\ position_sample' = pos
    /\ launch_ref' = pos
    /\ IF pos = "None"
       THEN sys_exit(1)
       ELSE /\ pc' = "sync"
            /\ UNCHANGED exit_code
    /\ UNCHANGED << config, waypoints, initial_position_drift, ptState, now,
                    led, log, attempt_number, wait_start, home_position,
                    raised, arm_error, health_ok_seen, origin_result,
                    last_fetch >>
    /\ UNCHANGED boot_leds

\* mutant: the start time is not waited for
SyncStart_NoWait ==
    /\ pc = "sync"
    /\ now' = now
    /\ attempt_number' = 1
    /\ pc' = "arm"
    /\ UNCHANGED << config, waypoints, initial_position_drift, ptState, led,
                    log, exit_code, wait_start, home_position, launch_ref,
                    raised, arm_error, bootHist >>
    /\ UNCHANGED boot_leds

\* Step 4: sleep until the synchronized start time when it is ahead
SyncStart ==
    /\ pc = "sync"
    /\ now' = IF start_time > now THEN start_time ELSE now
    /\ attempt_number' = 1
    /\ pc' = "arm"
    /\ UNCHANGED << config, waypoints, initial_position_drift, ptState, led,
                    log, exit_code, wait_start, home_position, launch_ref,
                    raised, arm_error, bootHist >>
    /\ UNCHANGED boot_leds

\* arming_and_starting_offboard_mode: entry and Step 1, the correction fetch
ArmBegin(f) ==
    /\ pc = "arm"
    /\ led' = GREEN
    /\ IF Params.REQUIRE_GLOBAL_POSITION /\ home_position # "None"
       THEN /\ log' = log \o << "arming", "fetch" >>
            /\ last_fetch' = f
            /\ IF compute_position_drift(f).raises = NoError
               THEN /\ initial_position_drift' = compute_position_drift(f).value
                    /\ pc' = "arm_hold"
                    /\ UNCHANGED arm_error
               ELSE /\ arm_error' = compute_position_drift(f).raises
                    /\ pc' = "arm_handler"
                    /\ UNCHANGED initial_position_drift
       ELSE /\ log' = Append(log, "arming")
            /\ pc' = "arm_hold"
            /\ UNCHANGED << initial_position_drift, arm_error, last_fetch >>
    /\ UNCHANGED << config, waypoints, ptState, now, exit_code, attempt_number,
                    wait_start, home_position, launch_ref, raised,
                    health_ok_seen, origin_result, position_sample >>
    /\ UNCHANGED boot_leds

\* one awaited command of the arm sequence: on success the next step, on an
\* exception the except clause
ArmCommand(at, cmd, r, next) ==
    /\ pc = at
    /\ log' = Append(log, cmd)
    /\ IF r = OK
       THEN /\ pc' = next
            /\ UNCHANGED arm_error
       ELSE /\ arm_error' = Err(r, cmd)
            /\ pc' = "arm_handler"
    /\ UNCHANGED << config, waypoints, initial_position_drift, ptState, now,
                    exit_code, attempt_number, wait_start, home_position,
                    launch_ref, raised, bootHist >>

\* Step 2: Hold flight mode
ArmHold(r) == ArmCommand("arm_hold", "hold", r, "arm_arm")
    /\ UNCHANGED << led, boot_leds >>

\* Step 3: arm
ArmArm(r) == ArmCommand("arm_arm", "arm", r, "arm_seed")
    /\ UNCHANGED << led, boot_leds >>

\* Step 4: the zero velocity setpoint
ArmSeed(r) == ArmCommand("arm_seed", "seed", r, "arm_start")
    /\ UNCHANGED << led, boot_leds >>

\* Step 5: offboard start, then white
ArmStart(r) ==
    /\ ArmCommand("arm_start", "offboard_start", r, "load")
    /\ led' = IF r = OK THEN WHITE ELSE led
    /\ UNCHANGED boot_leds

\* both except clauses: disarm is awaited first, then red, then the re-raise;
\* an exception of disarm leaves the clause at once
ArmHandler_NoDisarm(r) ==
    /\ pc = "arm_handler"
    /\ UNCHANGED log
    /\ IF r = OK
       THEN /\ led' = RED
            /\ raised' = arm_error
       ELSE /\ raised' = Err(r, "disarm")
            /\ UNCHANGED led
    /\ pc' = "arm_failed"
    /\ UNCHANGED << config, waypoints, initial_position_drift, ptState, now,
                    exit_code, attempt_number, wait_start, home_position,
                    launch_ref, arm_error, bootHist >>
    /\ UNCHANGED boot_leds
ArmHandler(r) ==
    /\ pc = "arm_handler"
    /\ log' = Append(log, "disarm")
    /\ IF r = OK
       THEN /\ led' = RED
            /\ raised' = arm_error
       ELSE /\ raised' = Err(r, "disarm")
            /\ UNCHANGED led
    /\ pc' = "arm_failed"
    /\ UNCHANGED << config, waypoints, initial_position_drift, ptState, now,
                    exit_code, attempt_number, wait_start, home_position,
                    launch_ref, arm_error, bootHist >>
    /\ UNCHANGED boot_leds

\* tenacity around arming_and_starting_offboard_mode: wait 2 s and call
\* again, or give up with RetryError
ArmRetry ==
    /\ pc = "arm_failed"
    /\ IF stop_after_attempt
       THEN /\ raised' = Err("RetryError", raised.origin)
            /\ pc' = "rd_raised"
            /\ UNCHANGED << now, attempt_number >>
       ELSE /\ now' = now + ArmRetryWait
            /\ attempt_number' = attempt_number + 1
            /\ pc' = "arm"
            /\ UNCHANGED raised
    /\ UNCHANGED << config, waypoints, initial_position_drift, ptState, led,
                    log, exit_code, wait_start, home_position, launch_ref,
                    arm_error, bootHist >>
    /\ UNCHANGED boot_leds

\* Step 6 and the call of Step 7: the trajectory is read (a missing hardware
\* id, configuration or file ends the process), perform_trajectory is entered
LoadTrajectory(loaded, w) ==
    /\ pc = "load"
    /\ IF loaded
       THEN /\ waypoints' = w
            /\ initial_climb_start_time' = now
            /\ pc' = "loop"
            /\ UNCHANGED exit_code
       ELSE /\ sys_exit(1)
            /\ UNCHANGED << waypoints, initial_climb_start_time >>
    /\ UNCHANGED << config, initial_position_drift, now, waypoint_index,
                    landing_detected, initial_climb_completed, clLocals,
                    plLocals, dispatched, lastIter, loop_exit, cl_event, led,
                    log, attempt_number, wait_start, home_position, launch_ref,
                    raised, arm_error, bootHist >>
    /\ UNCHANGED boot_leds

NextBoot ==
    \/ \E started \in BOOLEAN : StartServer(started)
    \/ \E r \in {OK, EXCEPTION} : ConnectBegin(r)
    \/ \E is_connected \in BOOLEAN : ConnectPoll(is_connected)
    \/ ConnectRetry
    \/ PreflightBegin
    \/ \E health \in HealthSamples : HealthPoll(health)
    \/ \E origin \in GeoPoints \cup {"TelemetryError", EXCEPTION},
          pos \in GeoPoints \cup {"None"} : OriginQuery(origin, pos)
    \/ \E pos \in GeoPoints \cup {"None"} : CaptureLaunch(pos)
    \/ SyncStart
    \/ \E f \in FetchOutcomes : ArmBegin(f)
    \/ \E r \in ActionResults : ArmHold(r)
    \/ \E r \in ActionResults : ArmArm(r)
    \/ \E r \in {OK, OFFBOARD_ERROR} : ArmSeed(r)
    \/ \E r \in {OK, OFFBOARD_ERROR} : ArmStart(r)
    \/ \E r \in ActionResults : ArmHandler(r)
    \/ ArmRetry
    \/ \E loaded \in BOOLEAN, w \in LoadedTrajectories :
           LoadTrajectory(loaded, w)
    \/ RunDroneExcept

\* run_drone from the start of the process to the entry of perform_trajectory
SpecBoot == InitBoot /\ [][NextBoot]_vars

\* ---------------------------------------------------------------------
\* Vocabulary of the properties
\* ---------------------------------------------------------------------
LastIndexOf(seq, x) ==
    IF \E i \in 1..Len(seq) : seq[i] = x
    THEN CHOOSE i \in 1..Len(seq) :
             seq[i] = x /\ \A j \in (i + 1)..Len(seq) : seq[j] # x
    ELSE 0

\* what the latest invocation of controlled_landing has issued so far
Invocation == SubSeq(log, LastIndexOf(log, "cl") + 1, Len(log))

CountOf(seq, x) == Cardinality({i \in 1..Len(seq) : seq[i] = x})

Occurs(seq, x) == \E i \in 1..Len(seq) : seq[i] = x

\* x is issued and later y is issued
InOrder(seq, x, y) ==
    \E i \in 1..Len(seq) : \E j \in (i + 1)..Len(seq) : seq[i] = x /\ seq[j] = y

\* controlled_landing has returned to its caller
CLReturned == pc \in {"trigger_ret", "post_cl_ret"}

\* perform_trajectory has returned or raised
MissionOver == pc \in {"done", "raised"}

FinalAltitudeHigh ==
    -waypoints[Len(waypoints)].pz > Params.GROUND_ALTITUDE_THRESHOLD

AfterDispatchPass == lastIter.kind = "dispatch"

\* the landing condition as the specification words it, at cursor i
StatedLandingCondition(i) ==
    /\ (i + 1) * 100 >= Params.MISSION_PROGRESS_THRESHOLD * Len(waypoints)
    /\ -waypoints[Len(waypoints)].pz <= Params.GROUND_ALTITUDE_THRESHOLD
    /\ \/ waypoints[Len(waypoints)].t - waypoints[i + 1].t
             <= Params.CONTROLLED_LANDING_TIME
       \/ -CorrectedPz(i) <= Params.CONTROLLED_LANDING_ALTITUDE

\* the same with the altitude test strict
StrictLandingCondition(i) ==
    /\ (i + 1) * 100 >= Params.MISSION_PROGRESS_THRESHOLD * Len(waypoints)
    /\ -waypoints[Len(waypoints)].pz <= Params.GROUND_ALTITUDE_THRESHOLD
    /\ \/ waypoints[Len(waypoints)].t - waypoints[i + 1].t
             <= Params.CONTROLLED_LANDING_TIME
       \/ -CorrectedPz(i) < Params.CONTROLLED_LANDING_ALTITUDE

\* ---------------------------------------------------------------------
\* Properties
\* ---------------------------------------------------------------------

\* C1: the cursor never decreases from one step to the next, and every
\* setpoint the loop sends is sent at a cursor that is at or after the
\* current one and strictly after the cursor of the setpoint before it.
C1_MonotoneDispatch ==
    [][ /\ waypoint_index' >= waypoint_index
        /\ dispatched' # dispatched =>
             /\ Len(dispatched') = Len(dispatched) + 1
             /\ SubSeq(dispatched', 1, Len(dispatched)) = dispatched
             /\ dispatched'[Len(dispatched')] >= waypoint_index
             /\ Len(dispatched) > 0 =>
                  dispatched'[Len(dispatched')] > dispatched[Len(dispatched)]
      ]_vars

\* C1 witness: two setpoints were sent and a waypoint between them was skipped
C1_Witness ==
    /\ Len(dispatched) >= 2
    /\ dispatched[2] > dispatched[1] + 1

\* C2 as stated: after every on-time or late loop pass, landing was triggered
\* exactly when progress >= threshold, final altitude <= ground threshold and
\* (time_to_end <= landing time or altitude <= landing altitude).
C2_StatedTriggerIff ==
    lastIter.kind \in {"climb", "dispatch"} =>
        (lastIter.triggered <=> StatedLandingCondition(lastIter.idx))

\* C2 amended: after every pass that came through the climb gate and whose
\* setpoint was sent without error, landing was triggered exactly when
\* progress >= threshold, final altitude <= ground threshold and
\* (time_to_end <= landing time or altitude < landing altitude, strictly).
C2_TriggerIff ==
    (AfterDispatchPass /\ lastIter.res = OK) =>
        /\ lastIter.triggered <=> StrictLandingCondition(lastIter.idx)
        /\ lastIter.triggered <=> (pc = "cl_setup" /\ cl_ret = "trigger")

\* C2 witness: a pass triggered the landing before the last waypoint on the
\* time condition alone
C2_Witness ==
    /\ AfterDispatchPass
    /\ lastIter.triggered
    /\ lastIter.idx < Len(waypoints) - 1
    /\ -CorrectedPz(lastIter.idx) >= Params.CONTROLLED_LANDING_ALTITUDE

\* C3: when the final altitude is above the ground threshold,
\* controlled_landing is never invoked, and when perform_trajectory is over
\* its first two commands of the landing were stop offboard, then land.
C3_HighEndsNative ==
    FinalAltitudeHigh =>
        /\ ~Occurs(log, "cl")
        /\ pc \notin {"cl_setup", "cl_loop", "cl_after"}
        /\ MissionOver =>
             /\ Len(log) >= 2
             /\ log[1] = "stop"
             /\ log[2] = "land"

\* C3 witness: a run with a high final altitude ended by a command error in
\* the loop and finished
C3_Witness ==
    /\ FinalAltitudeHigh
    /\ loop_exit = "error"
    /\ pc = "done"

\* C4: when the final altitude is low, a finished run has invoked
\* controlled_landing exactly once.
C4_ControlledLandingOnce ==
    (MissionOver /\ ~FinalAltitudeHigh) => CountOf(log, "cl") = 1

\* C5: after the drift-skip step the cursor is at least what it was before
\* the step and at most the last index.
C5_SkipWithinBounds ==
    AfterDispatchPass =>
        /\ lastIter.idx >= lastIter.pre
        /\ lastIter.idx <= Len(waypoints) - 1

\* C5 witness: a skip that was clamped to the last index
C5_Witness ==
    /\ AfterDispatchPass
    /\ lastIter.res = OK
    /\ csv_step > 0
    /\ lastIter.pre + SkipCount(lastIter.drift, csv_step) > Len(waypoints) - 1
    /\ lastIter.idx = Len(waypoints) - 1

\* C6 as stated: after the climb, if step*k <= timing_error < step*(k+1) and
\* timing_error <= max_catchup, the drift-skip advanced the cursor by k.
C6_StatedExactAdvance ==
    \A k \in 0..DRIFT_CATCHUP_MAX_SEC :
        ( /\ AfterDispatchPass
          /\ lastIter.res # "ZeroDivisionError"
          /\ csv_step * k <= lastIter.drift
          /\ lastIter.drift < csv_step * (k + 1)
          /\ lastIter.drift <= DRIFT_CATCHUP_MAX_SEC )
        => lastIter.idx - lastIter.pre = k

\* C6 amended: under the same conditions the drift-skip moved the cursor to
\* cursor + k, or to the last index if cursor + k is past it.
C6_ClampedAdvance ==
    \A k \in 0..DRIFT_CATCHUP_MAX_SEC :
        ( /\ AfterDispatchPass
          /\ lastIter.res # "ZeroDivisionError"
          /\ csv_step * k <= lastIter.drift
          /\ lastIter.drift < csv_step * (k + 1)
          /\ lastIter.drift <= DRIFT_CATCHUP_MAX_SEC )
        => lastIter.idx = Min(lastIter.pre + k, Len(waypoints) - 1)

\* C6 witness: a timing error of two whole steps moved the cursor by two
C6_Witness ==
    /\ AfterDispatchPass
    /\ csv_step > 0
    /\ lastIter.drift <= DRIFT_CATCHUP_MAX_SEC
    /\ lastIter.drift \div csv_step = 2
    /\ lastIter.idx = lastIter.pre + 2

\* C7: one drift-skip moves the cursor by at most max_catchup div step; with
\* the start 5 s (50 ticks) ago, a step of 0.5 s and a waypoint to skip to,
\* the skip moves the cursor by exactly 1.
C7_SkipCapped ==
    (AfterDispatchPass /\ csv_step > 0) =>
        /\ lastIter.idx - lastIter.pre <= DRIFT_CATCHUP_MAX_SEC \div csv_step
        /\ ( /\ lastIter.drift >= 50
             /\ csv_step = 5
             /\ lastIter.pre < Len(waypoints) - 1 )
           => lastIter.idx - lastIter.pre = 1

\* C7 witness: the first pass of a run started 5 s late with 0.5 s steps
\* skipped one waypoint
C7_Witness ==
    /\ AfterDispatchPass
    /\ start_time = -50
    /\ lastIter.drift = 50
    /\ csv_step = 5
    /\ Len(waypoints) = 3
    /\ lastIter.pre = 0
    /\ lastIter.idx = 1
    /\ dispatched = << 1 >>

\* C8: when controlled_landing returns after an on-ground sample, all it
\* issued is stop offboard, then disarm (no native landing), and the LED is
\* green.
C8_GroundDetected ==
    (CLReturned /\ cl_landing_detected) =>
        /\ Invocation = << "stop", "disarm" >>
        /\ led = GREEN

\* C9 as stated: when controlled_landing returns after the landing timeout
\* without ground detection, it has stopped offboard mode and then issued the
\* native landing, and it has not waited for a ground-contact sample after it.
C9_StatedTimeoutNoWait ==
    (CLReturned /\ cl_event = "timeout" /\ ~cl_landing_detected) =>
        /\ InOrder(Invocation, "stop", "land")
        /\ ~Occurs(Invocation, "wait")

\* C9 amended: when controlled_landing returns after the landing timeout
\* without ground detection, the first things it issued are stop offboard and
\* then the native landing, and unless that land command failed the next
\* thing it did was to wait for a ground-contact sample.
C9_TimeoutFallback ==
    (CLReturned /\ cl_event = "timeout" /\ ~cl_landing_detected) =>
        /\ Len(Invocation) >= 3
        /\ Invocation[1] = "stop"
        /\ Invocation[2] = "land"
        /\ Invocation[3] \in {"wait", "land_failed"}

\* C9 witness: a timed-out descent whose native landing was accepted returned
C9_Witness ==
    /\ CLReturned
    /\ cl_event = "timeout"
    /\ ~cl_landing_detected
    /\ Invocation[3] = "wait"

\* C10: when controlled_landing returns after an OffboardError of a descent
\* setpoint (the first one or a later one), it has set the LED red and has
\* stopped offboard mode and then issued the native landing.
C10_CommandErrorFallback ==
    (CLReturned /\ cl_event \in {"setup_error", "loop_error"}) =>
        /\ Occurs(Invocation, "red")
        /\ InOrder(Invocation, "stop", "land")

\* C11 as stated: when the process has exited, status 0 means the loop did not
\* end on an error, and a loop that ended on a command or telemetry error has
\* left the red indicator and exit status 1.
C11_StatedFaultSurfaced ==
    pc = "exit" =>
        /\ exit_code = 0 => loop_exit # "error"
        /\ loop_exit = "error" => (led = RED /\ exit_code = 1)

\* C12 as stated: after a climb pass whose setpoint raised a command error the
\* loop has not ended: the coroutine is still in the loop, at its next pass.
C12_StatedClimbErrorRecovered ==
    (lastIter.kind = "climb" /\ lastIter.res # OK) =>
        (pc = "loop" /\ loop_exit = "none")

\* ---------------------------------------------------------------------
\* Properties of the bootstrap
\* ---------------------------------------------------------------------

\* what the latest attempt of the arm sequence has issued so far
ArmAttempt == SubSeq(log, LastIndexOf(log, "arming") + 1, Len(log))

\* the same without the GET of the correction
ArmCommands == SelectSeq(ArmAttempt, LAMBDA c : c # "fetch")

ArmSequence == << "hold", "arm", "seed", "offboard_start" >>

IsPrefix(s, t) == Len(s) <= Len(t) /\ s = SubSeq(t, 1, Len(s))

Front(s) == SubSeq(s, 1, Len(s) - 1)

\* pre_flight_checks has returned to run_drone
PreflightPassed ==
    pc \in {"capture", "sync", "arm", "arm_hold", "arm_arm", "arm_seed",
            "arm_start", "arm_handler", "arm_failed", "load", "loop"}

\* tenacity gave up on the arm sequence / on the connection
ArmExhausted == raised.type = "RetryError" /\ Occurs(log, "arming")
ConnectExhausted == raised.type = "RetryError" /\ ~Occurs(log, "arming")

\* C13: within an attempt the commands are hold, arm, seed setpoint, offboard
\* start in this order; one is issued only after every earlier one succeeded;
\* the one that failed is the last of them and a disarm follows it.
C13_ArmSequenceOrdered ==
    /\ pc = "arm_hold" => ArmCommands = << >>
    /\ pc = "arm_arm" => ArmCommands = SubSeq(ArmSequence, 1, 1)
    /\ pc = "arm_seed" => ArmCommands = SubSeq(ArmSequence, 1, 2)
    /\ pc = "arm_start" => ArmCommands = SubSeq(ArmSequence, 1, 3)
    /\ pc = "load" => ArmCommands = ArmSequence
    /\ pc = "arm_handler" =>
         /\ IsPrefix(ArmCommands, ArmSequence)
         /\ IF arm_error.origin = "fetch"
            THEN ArmCommands = << >>
            ELSE /\ Len(ArmCommands) > 0
                 /\ ArmCommands[Len(ArmCommands)] = arm_error.origin
    /\ pc = "arm_failed" =>
         /\ Len(ArmCommands) > 0
         /\ ArmCommands[Len(ArmCommands)] = "disarm"
         /\ IsPrefix(Front(ArmCommands), ArmSequence)
         /\ IF arm_error.origin = "fetch"
            THEN Front(ArmCommands) = << >>
            ELSE /\ Len(ArmCommands) > 1
                 /\ ArmCommands[Len(ArmCommands) - 1] = arm_error.origin

\* C13 witness: the seed setpoint failed after hold and arm: no offboard
\* start, a disarm
C13_Witness ==
    /\ pc = "arm_failed"
    /\ ArmCommands = << "hold", "arm", "seed", "disarm" >>

\* C14 as stated: whenever an attempt of the arm sequence has failed, whatever
\* the disarm command answered, a disarm was issued, the indicator is red and
\* the exception that leaves the attempt is the one that made it fail.
C14_StatedHandlerAlways ==
    pc = "arm_failed" =>
        /\ Len(log) > 0
        /\ log[Len(log)] = "disarm"
        /\ led = RED
        /\ raised = arm_error

\* C15: the arm sequence is attempted at most PREFLIGHT_MAX_RETRIES times,
\* 2 s after each failure; when the last attempt has failed the failure
\* reaches run_drone, whose only step is to exit with status 1, and the
\* trajectory is never loaded nor the loop entered.
C15_BoundedArmAttempts ==
    [][ /\ CountOf(log', "arming") <= Params.PREFLIGHT_MAX_RETRIES
        /\ (pc = "arm_failed" /\ pc' = "arm") => now' = now + ArmRetryWait
        /\ (pc = "arm_failed" /\ pc' # "arm") =>
             /\ CountOf(log, "arming") = Params.PREFLIGHT_MAX_RETRIES
             /\ pc' = "rd_raised"
             /\ raised'.type = "RetryError"
        /\ ArmExhausted => (pc' = "exit" /\ exit_code' = 1)
        /\ ArmExhausted' =>
             /\ pc' \in {"rd_raised", "exit"}
             /\ waypoints' = << >>
             /\ dispatched' = << >>
      ]_vars

\* C15 witness: two attempts failed and the process exited with 1
C15_Witness ==
    /\ pc = "exit"
    /\ ArmExhausted
    /\ CountOf(log, "arming") = 2
    /\ exit_code = 1

\* C16 as stated: when the latest fetch of the correction failed, the
\* correction is none and the failure is not what made the attempt fail.
C16_StatedFetchNonFatal ==
    last_fetch.kind \notin {"none", "ok"} =>
        /\ initial_position_drift = None
        /\ arm_error.origin # "fetch"
        /\ raised.origin # "fetch"

\* C17 as stated: the correction is fetched at most once in a session and a
\* correction that is set never changes.
C17_StatedFetchedOnce ==
    [][ /\ CountOf(log', "fetch") <= 1
        /\ initial_position_drift.present =>
             initial_position_drift' = initial_position_drift
      ]_vars

\* C17 amended: the correction is fetched at most once in each attempt of the
\* arm sequence, so at most PREFLIGHT_MAX_RETRIES times in a session; when
\* the arm sequence has succeeded the correction is what the latest fetch
\* returned (none when it failed or was skipped) and it no longer changes.
C17_FetchedOncePerAttempt ==
    [][ /\ CountOf(ArmAttempt', "fetch") <= 1
        /\ CountOf(log', "fetch") <= CountOf(log', "arming")
        /\ CountOf(log', "arming") <= Params.PREFLIGHT_MAX_RETRIES
        /\ pc' \in {"load", "loop"} =>
             initial_position_drift' = last_fetch'.drift
        /\ pc \in {"load", "loop"} =>
             initial_position_drift' = initial_position_drift
      ]_vars

\* C17 witness: the loop is entered with a correction that the second fetch
\* of the session returned
C17_Witness ==
    /\ pc = "loop"
    /\ CountOf(log, "fetch") = 2
    /\ initial_position_drift.present

\* C18 as stated: when perform_trajectory is entered its launch reference is
\* the answer of the origin query when that query succeeded, and the
\* position sample that pre-flight fell back on when the query failed.
C18_StatedLaunchFromOrigin ==
    (pc = "loop" /\ Params.REQUIRE_GLOBAL_POSITION) =>
        /\ origin_result \in GeoPoints => launch_ref = origin_result
        /\ origin_result = "TelemetryError" => launch_ref = home_position

\* C18 amended: the launch reference is always the first position sample that
\* run_drone captures after pre-flight; the origin query, or the sample that
\* replaces it on a telemetry error, only gives home_position; the process
\* ends with status 1 when pre-flight gets neither or the capture gets nothing.
C18_LaunchFromLiveSample ==
    /\ launch_ref = (IF position_sample = "none" THEN "None" ELSE position_sample)
    /\ pc = "loop" => launch_ref \in GeoPoints
    /\ home_position # "None" =>
         /\ origin_result \in GeoPoints \cup {"TelemetryError"}
         /\ origin_result \in GeoPoints => home_position = origin_result
    /\ (raised = Err("ValueError", "origin") \/ position_sample = "None") =>
         /\ pc \in {"rd_raised", "exit"}
         /\ pc = "exit" => exit_code = 1

\* C18 witness: the origin query answered P, the live sample was Q, and the
\* engine starts with Q
C18_Witness ==
    /\ pc = "loop"
    /\ origin_result = "P"
    /\ launch_ref = "Q"

C20_HealthGate ==
    [][ /\ (Params.REQUIRE_GLOBAL_POSITION /\ (PreflightPassed \/ pc = "origin")')
             => health_ok_seen'
        /\ (pc = "health" /\ now - wait_start > Params.PRE_FLIGHT_TIMEOUT) =>
             /\ pc' = "rd_raised"
             /\ led' = RED
             /\ raised' = Err("TimeoutError", "health")
             /\ ~health_ok_seen'
        /\ raised.origin = "health" => (pc' = "exit" /\ exit_code' = 1)
        /\ raised'.origin = "health" =>
             /\ pc' \in {"rd_raised", "exit"}
             /\ ~Occurs(log', "arm")
      ]_vars

\* C20 witness: the health wait timed out and the process exited with 1, red
C20_Witness ==
    /\ pc = "exit"
    /\ raised = Err("TimeoutError", "health")
    /\ led = RED
    /\ exit_code = 1

\* ---------------------------------------------------------------------
\* Properties of one pass of the main loop
\* ---------------------------------------------------------------------

\* a pass of the main loop starts in this state
AtLoopPass == pc = "loop" /\ waypoint_index < Len(waypoints)

\* the correction that the session applies to a down coordinate
SessionCorrectionDown ==
    IF Params.ENABLE_INITIAL_POSITION_CORRECTION /\ initial_position_drift.present
    THEN initial_position_drift.down_m
    ELSE 0

\* the climb gate as the code words it, for the waypoint at the cursor
ClimbGateClosed ==
    /\ ~initial_climb_completed
    /\ \/ -(waypoints[waypoint_index + 1].pz + SessionCorrectionDown)
             < Params.INITIAL_CLIMB_ALTITUDE_THRESHOLD
       \/ now - initial_climb_start_time < Params.INITIAL_CLIMB_TIME_THRESHOLD

C23_AheadSleeps ==
    [][ (AtLoopPass /\ DriftDelta(now) < 0) =>
          /\ waypoint_index' = waypoint_index
          /\ dispatched' = dispatched
          /\ pc' = "loop"
          /\ lastIter'.kind = "ahead"
          /\ (now' - now) - Min(-DriftDelta(now), AHEAD_SLEEP_STEP_SEC)
                 \in Jitters
      ]_vars

\* C23 witness: a pass slept the small step although the waypoint was
\* further ahead than that
C23_Witness ==
    /\ lastIter.kind = "ahead"
    /\ -lastIter.drift > AHEAD_SLEEP_STEP_SEC
    /\ dispatched # << >>

\* the setpoint call that the flags choose, as the specification words it
StatedSetpointMode ==
    CASE Params.USE_GLOBAL_SETPOINTS -> "position_global"
      [] ~Params.USE_GLOBAL_SETPOINTS /\ Params.FEEDFORWARD_VELOCITY_ENABLED
           /\ Params.FEEDFORWARD_ACCELERATION_ENABLED ->
             "position_velocity_acceleration_ned"
      [] ~Params.USE_GLOBAL_SETPOINTS /\ Params.FEEDFORWARD_VELOCITY_ENABLED
           /\ ~Params.FEEDFORWARD_ACCELERATION_ENABLED ->
             "position_velocity_ned"
      [] OTHER -> "position_ned"

\* C24: a pass of the loop sends at most one setpoint, whatever the skip, and
\* a dispatch after the climb makes the one call that the flags choose:
\* global when global setpoints are set, else position+velocity+acceleration
\* with both feed-forward flags, position+velocity with the velocity flag
\* only, position alone otherwise.
C24_OneSetpointOneMode ==
    [][ AtLoopPass =>
          /\ Len(dispatched') <= Len(dispatched) + 1
          /\ (lastIter'.kind = "dispatch" /\ lastIter'.res = OK) =>
               /\ lastIter'.mode = StatedSetpointMode
               /\ dispatched' = Append(dispatched, lastIter'.idx)
      ]_vars

\* C24 witness: with all three flags set, a pass skipped two rows and made
\* the global call once
C24_Witness ==
    /\ lastIter.kind = "dispatch"
    /\ lastIter.res = OK
    /\ lastIter.idx >= lastIter.pre + 2
    /\ Params.FEEDFORWARD_VELOCITY_ENABLED
    /\ Params.FEEDFORWARD_ACCELERATION_ENABLED
    /\ lastIter.mode = "position_global"

\* C25: the down coordinate sent by a dispatch after the climb is the raw one
\* of the waypoint at the cursor after the drift-skip plus the correction of
\* the session (the raw one when there is none).
C25_PostSkipCorrected ==
    (lastIter.kind = "dispatch" /\ lastIter.res = OK) =>
        /\ lastIter.idx = DriftSkip(lastIter.pre,
                                    SkipCount(lastIter.drift, csv_step),
                                    total_waypoints)
        /\ lastIter.pz = waypoints[lastIter.idx + 1].pz + SessionCorrectionDown

\* C25 witness: a dispatch that skipped to a row at another altitude, with a
\* correction in force
C25_Witness ==
    /\ lastIter.kind = "dispatch"
    /\ lastIter.res = OK
    /\ lastIter.idx > lastIter.pre
    /\ waypoints[lastIter.idx + 1].pz # waypoints[lastIter.pre + 1].pz
    /\ SessionCorrectionDown # 0


\* ---------------------------------------------------------------------
\* read_trajectory_file: the trajectory normalizer
\* ---------------------------------------------------------------------
\* most data rows of a file
MaxRows == 2

\* a cell of a data row as csv.DictReader hands it over: text that float()
\* parses, text that it does not, or None for a row shorter than the header
Num(v) == [kind |-> "num", v |-> v]
Text == [kind |-> "text", v |-> 0]
Missing == [kind |-> "none", v |-> 0]

CsvRows ==
    [ t    : {Num(0), Num(10)},
      px   : {Num(0), Num(2), Text},
      py   : {Num(1)},
      pz   : {Num(0), Num(-1)},
      vx   : {Num(1), Text, Missing},
      yaw  : {Num(3)},
      mode : {"0"} ]

RowSeqs == UNION { [1..n -> CsvRows] : n \in 0..MaxRows }

\* the files: one that cannot be opened, and readable ones whose header
\* has or lacks the vx column
Unreadable == [readable |-> FALSE, vx_column |-> TRUE, rows |-> << >>]
Files ==
    {Unreadable} \cup [readable : {TRUE}, vx_column : BOOLEAN, rows : RowSeqs]

\* (initial_x, initial_y) of the drone's config row
ConfigOffsets == { <<0, 0>>, <<1, 2>> }

\* float(cell): the exception it raises, "none" when it parses
float_error(cell) ==
    CASE cell.kind = "num"  -> "none"
      [] cell.kind = "text" -> "ValueError"
      [] OTHER              -> "TypeError"

\* the first exception among the conversions made in order
FirstError(errs) ==
    LET bad == { k \in 1..Len(errs) : errs[k] # "none" }
    IN  IF bad = {} THEN "none"
        ELSE errs[CHOOSE k \in bad : \A j \in bad : k <= j]

\* the conversions of one row in the loop body, in the order of the code
RowError(file, row) ==
    FirstError(<< float_error(row.t), float_error(row.px),
                  float_error(row.py), float_error(row.pz),
                  IF file.vx_column THEN float_error(row.vx) ELSE "KeyError",
                  float_error(row.yaw) >>)

\* the tuple appended for a row that converts
RowWaypoint(row) ==
    [ t |-> row.t.v, px |-> row.px.v, py |-> row.py.v, pz |-> row.pz.v,
      vx |-> row.vx.v, yaw |-> row.yaw.v, mode |-> row.mode ]

\* extract_initial_positions(rows[0]): the exception it lets out, and the
\* (north, east, down) it returns otherwise
extract_initial_positions_error(row) ==
    FirstError(<< float_error(row.px), float_error(row.py),
                  float_error(row.pz) >>)
\* mutant: the origin is not taken from the first row
extract_initial_positions_Zero(row) == << 0, 0, 0 >>
extract_initial_positions(row) == << row.px.v, row.py.v, row.pz.v >>

\* blender_north_west_up_to_ned: (X, Y, Z) north-west-up to (N, E, D)
blender_north_west_up_to_ned(x_b, y_b, z_b) == << x_b, 0 - y_b, 0 - z_b >>

\* mutant: the initial position is added
adjust_waypoints_Added(wps, ix, iy, iz) ==
    [ k \in 1..Len(wps) |->
        [ wps[k] EXCEPT !.px = @ + ix, !.py = @ + iy, !.pz = @ + iz ] ]
\* adjust_waypoints: subtract the initial position from every waypoint
adjust_waypoints(wps, ix, iy, iz) ==
    [ k \in 1..Len(wps) |->
        [ wps[k] EXCEPT !.px = @ - ix, !.py = @ - iy, !.pz = @ - iz ] ]

\* the rows that the loop appends: a ValueError or KeyError skips the row
AppendedWaypoints(file) ==
    LET kept == SelectSeq(file.rows, LAMBDA r : RowError(file, r) = "none")
    IN  [ k \in 1..Len(kept) |-> RowWaypoint(kept[k]) ]

Exits == [exit |-> TRUE, waypoints |-> << >>]

\* read_trajectory_file(filename, auto_launch_position, initial_x, initial_y)
read_trajectory_file(file, auto, ix, iy) ==
    IF ~file.readable THEN Exits
    ELSE IF file.rows = << >> THEN Exits
    ELSE IF auto /\ extract_initial_positions_error(file.rows[1]) # "none"
        THEN Exits
    ELSE IF \E k \in 1..Len(file.rows) :
                RowError(file, file.rows[k]) = "TypeError"
        THEN Exits
    ELSE LET origin == IF auto THEN extract_initial_positions(file.rows[1])
                       ELSE << ix, iy, 0 >>
         IN  [ exit |-> FALSE,
               waypoints |-> adjust_waypoints(AppendedWaypoints(file),
                                 origin[1], origin[2], origin[3]) ]

\* run_drone is about to load the trajectory
InitRead ==
    /\ Bootstrapped
    /\ PollerIdle
    /\ Params \in { p \in BootParamsValues :
                       p.PREFLIGHT_MAX_RETRIES = 1 /\ p.REQUIRE_GLOBAL_POSITION }
    /\ start_time = 0
    /\ now = 0
    /\ csvfile \in Files
    /\ auto_launch_position \in BOOLEAN
    /\ \E o \in ConfigOffsets : initial_x = o[1] /\ initial_y = o[2]
    /\ waypoints = << >>
    /\ pc = "read"
    /\ initial_position_drift = None
    /\ waypoint_index = 0
    /\ landing_detected = FALSE
    /\ initial_climb_completed = FALSE
    /\ initial_climb_start_time = 0
    /\ cl_ret = "none"
    /\ cl_landing_detected = FALSE
    /\ landing_start_time = 0
    /\ pl_ret = "none"
    /\ pl_start_time = 0
    /\ led = LED_INIT
    /\ dispatched = << >>
    /\ log = << >>
    /\ lastIter = NoIter
    /\ loop_exit = "none"
    /\ cl_event = "none"

\* Step 6 of run_drone: the call of read_trajectory_file
ReadTrajectoryFile ==
    /\ pc = "read"
    /\ LET r == read_trajectory_file(csvfile, auto_launch_position,
                                     initial_x, initial_y)
       IN  IF r.exit
           THEN /\ sys_exit(1)
                /\ UNCHANGED waypoints
           ELSE /\ waypoints' = r.waypoints
                /\ pc' = "loaded"
                /\ UNCHANGED exit_code
    /\ UNCHANGED << config, initial_position_drift, now, ptLocals, clLocals,
                    plLocals, led, dispatched, log, lastIter, loop_exit,
                    cl_event, attempt_number, wait_start, home_position,
                    launch_ref, raised, arm_error, bootHist >>
    /\ UNCHANGED boot_leds

NextRead == ReadTrajectoryFile

SpecRead == InitRead /\ [][NextRead]_vars


\* ---------------------------------------------------------------------
\* Scenario A: three samples one second apart at one raw position, read
\* in auto-origin mode and flown
\* ---------------------------------------------------------------------
ScenarioRow(tt, x, z) ==
    [ t |-> Num(tt), px |-> Num(x), py |-> Num(1), pz |-> Num(z),
      vx |-> Num(1), yaw |-> Num(3), mode |-> "0" ]

ScenarioFiles ==
    { [ readable |-> TRUE, vx_column |-> TRUE,
        rows |-> << ScenarioRow(0, x, z), ScenarioRow(10, x, z),
                    ScenarioRow(20, x, z) >> ] :
      x \in {2}, z \in {0, -5} }

InitScenarioA ==
    /\ Bootstrapped
    /\ PollerIdle
    /\ Params \in ParamsValues
    /\ \E late \in {0, 2} : start_time = -late
    /\ initial_position_drift \in PositionDrifts
    /\ now = 0
    /\ csvfile \in ScenarioFiles
    /\ auto_launch_position = TRUE
    /\ initial_x = 0
    /\ initial_y = 0
    /\ waypoints = << >>
    /\ pc = "read"
    /\ waypoint_index = 0
    /\ landing_detected = FALSE
    /\ initial_climb_completed = FALSE
    /\ initial_climb_start_time = 0
    /\ cl_ret = "none"
    /\ cl_landing_detected = FALSE
    /\ landing_start_time = 0
    /\ pl_ret = "none"
    /\ pl_start_time = 0
    /\ led = LED_INIT
    /\ dispatched = << >>
    /\ log = << >>
    /\ lastIter = NoIter
    /\ loop_exit = "none"
    /\ cl_event = "none"

\* Step 7 of run_drone: perform_trajectory is called with what was read
EnterTrajectory ==
    /\ pc = "loaded"
    /\ pc' = "loop"
    /\ waypoint_index' = 0
    /\ landing_detected' = FALSE
    /\ initial_climb_completed' = FALSE
    /\ initial_climb_start_time' = now
    /\ UNCHANGED << rdVars, inputs, now, clLocals, plLocals, led, dispatched,
                    log, lastIter, loop_exit, cl_event >>

NextScenarioA ==
    \/ ReadTrajectoryFile
    \/ EnterTrajectory
    \/ \E dt \in Jitters : LoopAhead(dt)
    \/ \E r \in CommandResults, dt \in Jitters : LoopClimb(r, dt)
    \/ \E r \in CommandResults, dt \in Jitters : LoopDispatch(r, dt)
    \/ LoopExhausted
    \/ TriggerReturn
    \/ TriggerRaised
    \/ PostControlled
    \/ PostFinish
    \/ \E r \in ActionResults : PL_Land(r)
    \/ \E s \in LandedSamples : PL_Poll(s)
    \/ \E r \in CommandResults : CL_Setup(r)
    \/ \E r \in CommandResults, s \in LandedSamples, dt \in Jitters :
           CL_Poll(r, s, dt)
    \/ CL_TimeoutReturn
    \/ CL_Grounded
    \/ CL_Fallback
    \/ CL_FallbackReturn
    \/ RunDroneExit
    \/ RunDroneExcept

SpecScenarioA == InitScenarioA /\ [][NextScenarioA]_vars


\* ---------------------------------------------------------------------
\* Properties of the status indicator during bootstrap
\* ---------------------------------------------------------------------
FirstIndexOf(seq, x) ==
    CHOOSE i \in 1..Len(seq) : seq[i] = x /\ \A j \in 1..(i - 1) : seq[j] # x

\* colour b has been shown only after colour a was
ShownOnlyAfter(a, b) ==
    Occurs(boot_leds, b)
        => /\ Occurs(boot_leds, a)
           /\ FirstIndexOf(boot_leds, a) < FirstIndexOf(boot_leds, b)

IndicatorOrder == ShownOnlyAfter(BLUE, YELLOW) /\ ShownOnlyAfter(YELLOW, GREEN)

LastShownRed ==
    /\ boot_leds # << >>
    /\ boot_leds[Len(boot_leds)] = RED
    /\ led = RED

\* the process ended with 1 before arming began
BootstrapFailed == pc = "exit" /\ exit_code = 1 /\ ~Occurs(log, "arming")

\* initial_setup_and_connection or pre_flight_checks has just raised
ChecksRaised ==
    pc \in {"connect_failed", "rd_raised"} /\ ~Occurs(log, "arming")

Decodable(row) ==
    /\ csvfile.vx_column
    /\ \A c \in {row.t, row.px, row.py, row.pz, row.vx, row.yaw} :
           c.kind = "num"

\* the rows of the file that decode, in file order
DecodedRows == SelectSeq(csvfile.rows, Decodable)

\* the file was loaded and a trajectory returned
Loaded == pc = "loaded"

\* the returned trajectory is the decodable rows, in order, with the
\* position moved by (n, e, d) and every other field as in the file
ReturnsShifted(n, e, d) ==
    /\ Len(waypoints) = Len(DecodedRows)
    /\ \A k \in 1..Len(waypoints) :
           /\ waypoints[k].px = DecodedRows[k].px.v - n
           /\ waypoints[k].py = DecodedRows[k].py.v - e
           /\ waypoints[k].pz = DecodedRows[k].pz.v - d
           /\ waypoints[k].t = DecodedRows[k].t.v
           /\ waypoints[k].vx = DecodedRows[k].vx.v
           /\ waypoints[k].yaw = DecodedRows[k].yaw.v
           /\ waypoints[k].mode = DecodedRows[k].mode

\* C27 (as stated): in auto-origin mode the first sample of every returned,
\* non-empty trajectory is (0, 0, 0), also when some rows fail to decode
C27_StatedAutoOriginFirst ==
    (Loaded /\ auto_launch_position /\ Len(waypoints) > 0)
        => /\ waypoints[1].px = 0
           /\ waypoints[1].py = 0
           /\ waypoints[1].pz = 0

C29_StatedFrameConversion ==
    (Loaded /\ ~auto_launch_position /\ Len(waypoints) > 0)
        => LET r   == DecodedRows[1]
               ned == blender_north_west_up_to_ned(r.px.v, r.py.v, r.pz.v)
           IN  /\ waypoints[1].px = ned[1] - initial_x
               /\ waypoints[1].py = ned[2] - initial_y
               /\ waypoints[1].pz = ned[3]

\* C30 (as stated): a row with a missing field or a non-numeric value is
\* skipped and the other rows are still read: reading a file that opens
\* and has rows returns its decodable rows
C30_StatedRowSkipped ==
    (pc # "read" /\ csvfile.readable /\ csvfile.rows # << >>)
        => /\ Loaded
           /\ Len(waypoints) = Len(DecodedRows)
           /\ \A k \in 1..Len(waypoints) : waypoints[k].t = DecodedRows[k].t.v

\* ---------------------------------------------------------------------
\* Properties of Scenario A
\* ---------------------------------------------------------------------
\* every row of the file was returned, at position (0, 0, 0)
ScenarioAdjusted ==
    pc # "read"
        => /\ Len(waypoints) = Len(csvfile.rows)
           /\ \A k \in 1..Len(waypoints) :
                  /\ waypoints[k].px = 0
                  /\ waypoints[k].py = 0
                  /\ waypoints[k].pz = 0

\* the landing trigger has not fired in the loop, and a mission that is
\* complete landed by the post-loop call of controlled_landing
LandedOnlyPostLoop ==
    /\ loop_exit # "trigger"
    /\ cl_ret # "trigger"
    /\ pc = "done" => cl_ret = "post"

\* the corrected altitude of the adjusted samples is below the initial-climb
\* altitude threshold
ScenarioBelowClimbAltitude ==
    -(0 + SessionCorrectionDown) < Params.INITIAL_CLIMB_ALTITUDE_THRESHOLD

C32_StatedOutcomesExclusive ==
    CLReturned =>
        ~(Occurs(Invocation, "land") /\ Occurs(Invocation, "disarm"))

\* C33 (as stated): an invocation of controlled_landing that took the timeout
\* branch has stopped commandable mode once and issued the native landing
\* command once
C33_StatedFallbackOnce ==
    (CLReturned /\ cl_event = "timeout") =>
        /\ CountOf(Invocation, "stop") = 1
        /\ CountOf(Invocation, "land") = 1

\* the landing code's commands that need commandable mode stopped first
LandingCommands == {"land", "disarm"}

\* a stop request was issued before command i of the log, after the landing
\* command before it
StoppedBefore(i) ==
    \E j \in 1..(i - 1) :
        /\ log[j] = "stop"
        /\ \A k \in (j + 1)..(i - 1) : log[k] \notin LandingCommands

\* C36: every native landing command and every disarm of the landing code is
\* preceded by a stop-commandable-mode request of its own
C36_StopBeforeLanding ==
    \A i \in 1..Len(log) : log[i] \in LandingCommands => StoppedBefore(i)

C36_Witness ==
    /\ CLReturned
    /\ cl_event = "loop_error"
    /\ Occurs(Invocation, "land")
    /\ Invocation[Len(Invocation)] = "wait"


\* ---------------------------------------------------------------------
\* Further properties of the main loop
\* ---------------------------------------------------------------------
\* C37: once a pass has found the climb complete, the flag stays set and no
\* later pass of the run is a climb pass
C37_ClimbLatched ==
    [][initial_climb_completed =>
          (initial_climb_completed' /\ lastIter'.kind # "climb")]_vars

\* a pass after the climb dispatched a waypoint that is below the climb
\* altitude threshold again
C37_Witness ==
    /\ initial_climb_completed
    /\ lastIter.kind = "dispatch"
    /\ lastIter.res = OK
    /\ -lastIter.pz < Params.INITIAL_CLIMB_ALTITUDE_THRESHOLD
    /\ Len(dispatched) >= 2

\* C38 (as stated): with at least two samples at non-decreasing offsets the
\* drift-skip computation of a pass never raises
C38_StatedSkipNeverRaises ==
    Len(waypoints) >= 2 =>
        lastIter.res \notin {"ZeroDivisionError", "IndexError"}

\* the errors that a command or a telemetry read raises
CommandErrors == {OFFBOARD_ERROR, EXCEPTION}

\* how the loop was left, as stated
StatedLoopEnd ==
    pc # "loop" =>
        /\ loop_exit \in {"exhausted", "trigger", "error"}
        /\ loop_exit = "exhausted" => waypoint_index = Len(waypoints)
        /\ loop_exit = "trigger" => (lastIter.triggered /\ lastIter.res = OK)
        /\ loop_exit = "error" => (lastIter.res \in CommandErrors /\ led = RED)

\* C31 (as stated): the loop eventually ends, and it ends only with the cursor
\* exhausted, with the landing trigger, or with the error of a command or of
\* a telemetry read, which sets the fault indicator
C31_StatedLoopEnds == <>(loop_exit # "none") /\ []StatedLoopEnd


\* ---------------------------------------------------------------------
\* Further properties of run_drone
\* ---------------------------------------------------------------------
\* the vehicle was armed by the latest arm command and no disarm was
\* commanded since
LeftArmed ==
    /\ Occurs(log, "offboard_start")
    /\ LastIndexOf(log, "disarm") < LastIndexOf(log, "arm")

\* C34 (as stated): when the process ends with 1 because the trajectory, the
\* hardware id or the configuration could not be loaded, the vehicle is not
\* left armed in commandable mode
C34_StatedLoadFailureDisarmed ==
    [][(pc = "load" /\ pc' = "exit") => ~LeftArmed']_vars

\* an arm or an offboard start has been commanded
ArmIssued == Occurs(log, "arm") \/ Occurs(log, "offboard_start")

\* C35: no arm and no offboard start is commanded before the synchronized
\* start time, and with the start time already reached run_drone goes on to
\* arm without waiting
C35_ArmAfterStartTime ==
    [][/\ ArmIssued' => now' >= start_time
       /\ (pc = "sync" /\ start_time <= now) => (pc' = "arm" /\ now' = now)]_vars

C35_Witness ==
    /\ Occurs(log, "offboard_start")
    /\ now = start_time
    /\ pc = "load"


\* ---------------------------------------------------------------------
\* Termination of the landing code
\* ---------------------------------------------------------------------
\* controlled_landing is not running: it returned or raised to its caller
CLEnded ==
    \/ CLReturned
    \/ pc \in {"raised", "trigger_raised"}

\* C39: every invocation of controlled_landing ends, by ground detection, by
\* the landing timeout or by a command error
C39_LandingEnds ==
    (pc = "cl_setup") ~>
        /\ CLEnded
        /\ \/ cl_landing_detected
           \/ cl_event = "timeout"
           \/ cl_event \in {"setup_error", "setup_raised", "loop_error",
                            "loop_exception"}

C39_Witness ==
    /\ CLReturned
    /\ cl_event = "timeout"
    /\ CountOf(Invocation, "wait") >= 2


\* ---------------------------------------------------------------------
\* gcs-server/git_status.py: the git-status poller of one drone
\* ---------------------------------------------------------------------
\* polls made in one run of the model
MaxPolls == 3

\* the 'status' of the JSON body of a 200 answer
GitStatuses == {"clean", "dirty"}
\* the failures whose report is throttled: a status other than 200,
\* requests.Timeout, requests.ConnectionError
ThrottledFailures == {"http_error", "timeout", "connection_error"}

\* every so many successful polls the verbose mode reports the status
RoutineReportPeriod == 50

\* Python truth of a status string or None
Truthy(v) == v # "None"

\* update_git_status_stats: the statistics after a poll; status_data is the
\* body of a successful poll and absent ("None") after a failure
update_git_status_stats(stats, success, status) ==
    IF success
    THEN [stats EXCEPT !.success_count = @ + 1,
                       !.consecutive_failures = 0,
                       !.last_status = IF Truthy(status) THEN status ELSE @]
    ELSE [stats EXCEPT !.failure_count = @ + 1,
                       !.consecutive_failures = @ + 1]

\* the comparison of the stored status with the current one
StatusChanged(stats, current_status) ==
    /\ Truthy(stats.last_status)
    /\ Truthy(current_status)
    /\ stats.last_status # current_status

\* should_log_git_event, reading the statistics as they are when it is called
should_log_git_event(stats, success, current_status) ==
    IF gcs_params.ULTRA_QUIET_MODE
    THEN IF ~success
         THEN /\ stats.consecutive_failures >= gcs_params.MIN_ERROR_THRESHOLD
              /\ stats.consecutive_failures % gcs_params.ERROR_REPORT_THROTTLE = 0
         ELSE \/ /\ ~gcs_params.SUPPRESS_RECOVERY_MESSAGES
                 /\ stats.consecutive_failures >= gcs_params.MIN_ERROR_THRESHOLD
              \/ /\ StatusChanged(stats, current_status)
                 /\ \/ stats.last_status = "clean" /\ current_status = "dirty"
                    \/ stats.last_status = "dirty" /\ current_status = "clean"
    ELSE IF gcs_params.POLLING_QUIET_MODE
    THEN IF ~success
         THEN \/ stats.consecutive_failures = 1
              \/ stats.consecutive_failures % gcs_params.ERROR_REPORT_THROTTLE = 0
         ELSE \/ stats.consecutive_failures > 0
              \/ StatusChanged(stats, current_status)
    ELSE \/ ~success
         \/ stats.consecutive_failures > 0
         \/ StatusChanged(stats, current_status)
         \/ /\ stats.success_count > 0
            /\ stats.success_count % RoutineReportPeriod = 0

\* what a pass of the polling loop leaves alone: the drone's own run
droneVars == << Params, waypoints, start_time, initial_position_drift, fileVars,
                now, pc, ptState, led, log, rdVars >>

Poll(kind, status, logged) == [kind |-> kind, status |-> status, logged |-> logged]

\* one pass of the polling loop answered with 200: the statistics are updated
\* first, then a recovery is logged, or else what should_log_git_event allows
PollSuccess(git_status) ==
    /\ Len(git_polls) < MaxPolls
    /\ LET stats == update_git_status_stats(git_status_stats, TRUE, git_status)
       IN  /\ git_status_stats' = stats
           /\ consecutive_errors' = 0
           /\ git_polls' =
                  Append(git_polls,
                         Poll("success", git_status,
                              \/ consecutive_errors > 0
                              \/ should_log_git_event(stats, TRUE, git_status)))
    /\ UNCHANGED << gcs_params, droneVars >>

\* one pass answered with another status, a timeout or a connection error
PollFailed(kind) ==
    /\ Len(git_polls) < MaxPolls
    /\ LET stats == update_git_status_stats(git_status_stats, FALSE, "None")
       IN  /\ git_status_stats' = stats
           /\ consecutive_errors' = consecutive_errors + 1
           /\ git_polls' =
                  Append(git_polls,
                         Poll(kind, "None",
                              should_log_git_event(stats, FALSE, "None")))
    /\ UNCHANGED << gcs_params, droneVars >>

\* one pass that met any other exception: always logged
PollException ==
    /\ Len(git_polls) < MaxPolls
    /\ git_status_stats' = update_git_status_stats(git_status_stats, FALSE, "None")
    /\ consecutive_errors' = consecutive_errors + 1
    /\ git_polls' = Append(git_polls, Poll("exception", "None", TRUE))
    /\ UNCHANGED << gcs_params, droneVars >>

\* the poller thread of a drone that is starting up
InitGit ==
    /\ RunDroneEntered
    /\ Params.PREFLIGHT_MAX_RETRIES = 1
    /\ Params.REQUIRE_GLOBAL_POSITION
    /\ start_time = 1000
    /\ GitTracked
    /\ gcs_params \in GcsParamsValues

NextGit ==
    \/ \E st \in GitStatuses : PollSuccess(st)
    \/ \E k \in ThrottledFailures : PollFailed(k)
    \/ PollException

SpecGit == InitGit /\ [][NextGit]_vars

\* C40 (as stated): when two successive polls of the drone succeed and report
\* different statuses, clean then dirty or dirty then clean, the second poll
\* is logged, in every logging mode
C40_StatedStatusChangeLogged ==
    \A i \in 2..Len(git_polls) :
        ( /\ git_polls[i - 1].kind = "success"
          /\ git_polls[i].kind = "success"
          /\ git_polls[i - 1].status # git_polls[i].status )
        => git_polls[i].logged

====
